---------------------------- MODULE Spec2Model ----------------------------
(***************************************************************************)
(* A model of the xe GPU address-space code (drivers/gpu/drm/xe/xe_vm.c):  *)
(* the VMA index, the bind ioctl, the async bind worker, VM close, the     *)
(* compute-mode rebind worker, and the page-table tree.                   *)
(*                                                                         *)
(* Addresses and sizes are counted in 4 KiB pages.  A VMA [start, end]     *)
(* holds the page numbers of its first and last page, as vma->start and    *)
(* vma->end hold the first and last byte.                                  *)
(***************************************************************************)
EXTENDS Integers, Sequences, FiniteSets, TLC

(* ------------------------------ bounds -------------------------------- *)
\* vm->size in pages (xe_vm_create sets 1 << xe_pt_shift(max_level + 1)).
NumPages == 2
\* Buffer objects user space can name in a bind (handles 1..NumBos).
NumBos == 1
\* Bind ioctls issued in one run.
MaxIoctls == 2
\* Operations in one vector of binds (MAX_BINDS in the source is 512).
MaxBinds == 2
\* Failures of vm_bind_ioctl other than the forced one, in one run.
MaxFail == 1
\* Userptr invalidations delivered in one run.
MaxInval == 1
\* Entries of one page-table node (GEN8_PDES in the source is 512).
PtEntries == 2
\* Level of the root of the page-table tree (vm->pt_root[id]->level).
PtRootLevel == 2
\* VMAs created in one run of the page-table actions.
MaxPtVmas == 2
\* xe_pt_create calls and kmalloc_array calls that succeed before one
\* fails in a bind.
MaxAllocs == 2
\* xe_migrate: CHUNK_SZ and the range of a u32, both in units of 4 MiB of
\* a scaled-down machine; the largest object, and the calls made.
MigChunk == 2
MigWord == 8
MaxBoSize == 9
MaxMigRuns == 2
\* Page-table updates: the entries of a table (511 is the most one
\* MI_STORE_DATA_IMM takes, one less than a table holds), and the pages
\* of a 64K entry.
UpdEntries == 3
Upd64k == 16
\* The generic walker: entries of a table, level of the root, and the
\* callbacks of one walk that do not just return 0 and ACTION_SUBTREE.
WalkEntries == 3
WalkRootLevel == 2
MaxOdd == 1
\* Pages of the VM in the runs that split a VMA.
SplitPages == 3

\* Compute engines of the VM, userptr VMAs and notifier calls in the runs
\* of the rebind worker.
NumEngines == 2
MaxUptr == 2
MaxNotify == 2
NumGt == 2
MaxLeafs == 2
MaxUsmRuns == 2
NumPinPages == 2
MaxTries == 3

(* ------------------------- program constants -------------------------- *)
ENOENT == 2
EAGAIN == 11
ENOMEM == 12
EFAULT == 14
EBUSY == 16
EINVAL == 22
ETIME == 62
EPROTO == 71
ENOTSUPP == 524

NoVma == 0
NoFence == 0

\* vm->size of an open VM.
VmSize == NumPages

Pages == 0 .. (NumPages - 1)
Bos == 1 .. NumBos

\* An entry of the abstract translation table: the backing page an address
\* translates to (bo = 0: a userptr page), or nothing.
Empty == [bo |-> 0 - 1, off |-> 0]

(* ------------------------------ state --------------------------------- *)
VARIABLES
    pt_root,        \* vm->pt_root: the page-table tree
    flags,          \* vm->flags: [async, mode, capture]
    size,           \* vm->size; 0 once closed
    vma,            \* every struct xe_vma ever allocated, by id
    vmas,           \* vm->vmas: ids in the rb-tree index
    pt,             \* translations currently written in the page tables
    pending,        \* vm->async_ops.pending
    async_error,    \* vm->async_ops.error
    munmap_rebind_inflight,
    capture,        \* the record at vm->async_ops.error_capture.addr
    fences,         \* every struct async_op_fence, by id
    lock,           \* holder of vm->lock
    wq,             \* vm->async_ops.work: [queued, running]
    wpc,            \* async_op_work_func: position
    wop,            \* async_op_work_func: op in hand
    ipc,            \* xe_vm_bind_ioctl: position
    iargs,          \* xe_vm_bind_ioctl: arguments kept across the lock
    iret,           \* xe_vm_bind_ioctl: last return value
    nioctl,         \* bind ioctls issued
    cpc,            \* xe_vm_close_and_put: position
    rq,             \* vm->preempt.rebind_work: [queued, running]
    rpc,            \* preempt_rebind_work_func: position
    nfail,          \* failures injected
    ninval,         \* invalidations delivered
    serial,         \* operations enqueued so far
    engines,        \* vm->preempt.engines: the compute engines, head first
    pfences,        \* every preempt fence ever created, by id
    resume_go,      \* vm->preempt.resume_go
    userptr,        \* per userptr VMA: the CPU pages and their pins
    npc,            \* vma_userptr_invalidate: position
    ri,             \* preempt_rebind_work_func: cursor in the engine list
    usm,            \* fault-mode invalidation: the leaves of a userptr
                    \* VMA per GT, the TLBs, xe_vm_invalidate_vma's position
    mig,            \* xe_migrate: the jobs submitted and the tables written
    walk,           \* drm_pt_walk: the walk in progress and its callbacks
    upin,           \* xe_vma_userptr_pin_pages and the rebind worker's
                    \* retry loop around it, for one userptr VMA
    hist            \* bookkeeping for the properties: the serial of the
                    \* last op completed (done) and of the op that failed
                    \* and has not completed since (failed); whether the
                    \* last ioctl under vm->lock met a MAP over a VMA (busy);
                    \* for the page-table actions the VMA bound by the
                    \* last MAP (bound), the nodes the tree had before it
                    \* (nodes), and whether the last step unbound that
                    \* VMA again (trip); for a bind that failed the nodes
                    \* it allocated and never freed (leaked) and whether
                    \* its clean-up dereferenced a NULL node (oops)

xvars == <<usm, mig, walk, upin>>

pvars == <<xvars, engines, pfences, resume_go, userptr, npc, ri>>

vmvars == <<pvars, pt_root, flags, size, vma, vmas, pt, pending, async_error,
            munmap_rebind_inflight, capture, fences, lock, wq, wpc, wop,
            ipc, iargs, iret, nioctl, cpc, rq, rpc, nfail, ninval, serial,
            hist>>

(* --------------------------- VMA helpers ------------------------------ *)
\* vm->size as xe_vm_create set it: the pages the page tables span.
OpenSize == Cardinality(DOMAIN pt)

\* xe_vm_is_closed
xe_vm_is_closed(sz) == sz = 0

xe_vm_in_compute_mode == flags.mode = "compute"
xe_vm_in_fault_mode == flags.mode = "fault"
xe_vm_no_dma_fences == xe_vm_in_compute_mode \/ xe_vm_in_fault_mode

\* xe_vma_cmp_vma_cb(key, node) = 0
xe_vma_cmp_vma_cb(lo, hi, v) ==
    IF lo > v.end THEN 1 ELSE IF hi < v.start THEN 0 - 1 ELSE 0

Overlapping(tab, idx, lo, hi) ==
    {i \in idx : xe_vma_cmp_vma_cb(lo, hi, tab[i]) = 0}

\* The order of the rb-tree: by start, the older node first among equals.
Before(tab, i, j) ==
    tab[i].start < tab[j].start \/ (tab[i].start = tab[j].start /\ i <= j)

Lowest(tab, S) == CHOOSE i \in S : \A j \in S : Before(tab, i, j)

RECURSIVE SortVmas(_, _)
SortVmas(tab, S) ==
    IF S = {} THEN <<>>
    ELSE LET i == Lowest(tab, S) IN <<i>> \o SortVmas(tab, S \ {i})


\* rb_find returns whichever matching node the descent meets first; k
\* stands for the shape of the tree.
rb_find(tab, S, k) == SortVmas(tab, S)[((k - 1) % Cardinality(S)) + 1]

\* xe_vm_find_overlapping_vma: NoVma when closed or nothing overlaps.
xe_vm_find_overlapping_vma(sz, tab, idx, lo, hi, k) ==
    IF xe_vm_is_closed(sz) \/ Overlapping(tab, idx, lo, hi) = {}
    THEN NoVma
    ELSE rb_find(tab, Overlapping(tab, idx, lo, hi), k)

\* The XE_BUG_ONs at the head of xe_vma_create.
xe_vma_create_bug(start, end, sz) == start > end \/ end >= sz

\* The struct xe_vma xe_vma_create returns.
\* xe_vma_create leaving vma->bo_offset at zero.
xe_vma_create_no_offset(bo, off, start, end) ==
    [start |-> start, end |-> end, bo |-> bo, off |-> 0,
     destroyed |-> FALSE, freed |-> FALSE, gt_present |-> FALSE,
     first_munmap_rebind |-> FALSE, last_munmap_rebind |-> FALSE,
     initial_bind |-> FALSE, dirty |-> FALSE, stale |-> (bo = 0),
     destroy_work |-> FALSE]

xe_vma_create(bo, off, start, end) ==
    [start |-> start, end |-> end, bo |-> bo, off |-> off,
     destroyed |-> FALSE, freed |-> FALSE, gt_present |-> FALSE,
     first_munmap_rebind |-> FALSE, last_munmap_rebind |-> FALSE,
     initial_bind |-> FALSE, dirty |-> FALSE, stale |-> (bo = 0),
     destroy_work |-> FALSE]

\* xe_vma_userptr_pin_pages on one VMA record: pages are pinned again when
\* the notifier sequence moved since the last pin (stale).
xe_vma_userptr_pin_pages(v) ==
    IF v.destroyed \/ ~v.stale THEN v
    ELSE [v EXCEPT !.stale = FALSE, !.dirty = TRUE]

\* xe_vma_destroy: a userptr VMA is handed to vma_destroy_work_func, any
\* other is freed at once; the index is not touched.
xe_vma_destroy(tab, i) ==
    IF tab[i].bo = 0 THEN [tab EXCEPT ![i].destroy_work = TRUE]
    ELSE [tab EXCEPT ![i].freed = TRUE]

\* xe_vm_insert_vma left out: the VMA is created but not put in the index.
xe_vm_insert_vma_none(idx, i) == idx

\* xe_vm_insert_vma / xe_vm_remove_vma
xe_vm_insert_vma(idx, i) == idx \cup {i}
xe_vm_remove_vma(idx, i) == idx \ {i}

\* bo->vmas, in list order.
RECURSIVE BoVmas(_, _, _)
BoVmas(tab, bo, i) ==
    IF i > Len(tab) THEN <<>>
    ELSE (IF tab[i].bo = bo /\ ~tab[i].freed THEN <<i>> ELSE <<>>)
         \o BoVmas(tab, bo, i + 1)

SeqToSet(s) == {s[n] : n \in 1 .. Len(s)}

(* ------------------- the bind ioctl: argument checks ------------------ *)
OpKinds == {"MAP", "UNMAP", "MAP_USERPTR", "UNMAP_ALL", "RESTART"}

\* vm_bind_ioctl_check_args, for the operation at position n of the vector.
check_args_op(ops, n) ==
    LET op == ops[n] IN
    IF n > 1 /\ (~ops[1].async \/ ~op.async \/ op.kind = "RESTART")
    THEN 0 - EINVAL
    ELSE IF ~ops[1].async /\ op.kind = "UNMAP_ALL" THEN 0 - EINVAL
    ELSE IF \/ (op.obj = 0 /\ op.kind \in {"MAP", "UNMAP_ALL"})
            \/ (op.addr # 0 /\ op.kind = "UNMAP_ALL")
            \/ (op.range # 0 /\ op.kind = "UNMAP_ALL")
            \/ (op.obj # 0 /\ op.kind \in {"MAP_USERPTR", "UNMAP"})
    THEN 0 - EINVAL
    ELSE IF op.range = 0 /\ op.kind \notin {"RESTART", "UNMAP_ALL"}
    THEN 0 - EINVAL
    ELSE 0

RECURSIVE FirstErr(_, _, _)
\* The first nonzero value of f[1..n], scanning from position i.
FirstErr(f, i, n) ==
    IF i > n THEN 0 ELSE IF f[i] # 0 THEN f[i] ELSE FirstErr(f, i + 1, n)

vm_bind_ioctl_check_args(ops) ==
    IF Len(ops) = 0 \/ Len(ops) > MaxBinds THEN 0 - EINVAL
    ELSE FirstErr([n \in 1 .. Len(ops) |-> check_args_op(ops, n)],
                  1, Len(ops))

\* The range checks of xe_vm_bind_ioctl against vm->size and the BO size.
BoPages == SplitPages + 1
bo_check_op(op) ==
    IF op.obj # 0 /\ op.obj \notin Bos THEN 0 - ENOENT
    ELSE IF op.obj # 0 /\ (op.range > BoPages
                           \/ op.obj_offset > BoPages - op.range)
    THEN 0 - EINVAL
    ELSE 0

\* The two loops run one after the other: every vm->size check first.
range_checks(ops, sz) ==
    LET a == FirstErr([n \in 1 .. Len(ops) |->
                        IF ops[n].range > sz \/ ops[n].addr > sz - ops[n].range
                        THEN 0 - EINVAL ELSE 0], 1, Len(ops))
    IN IF a # 0 THEN a
       ELSE FirstErr([n \in 1 .. Len(ops) |-> bo_check_op(ops[n])],
                     1, Len(ops))

\* __vm_bind_ioctl_lookup_vma
lookup_vma_check(sz, tab, idx, op, k) ==
    LET lo == op.addr
        hi == op.addr + op.range - 1
        v == xe_vm_find_overlapping_vma(sz, tab, idx, lo, hi, k)
    IN CASE op.kind \in {"MAP", "MAP_USERPTR"} ->
              IF v # NoVma THEN 0 - EBUSY ELSE 0
         [] op.kind = "UNMAP" ->
              IF v = NoVma THEN 0 - EINVAL
              ELSE IF (tab[v].start # lo \/ tab[v].end # hi) /\ ~op.async
              THEN 0 - EINVAL
              ELSE 0
         [] OTHER -> 0


(* ------------------ the bind ioctl: creating the VMAs ----------------- *)
\* What one call of vm_bind_ioctl_lookup_vma leaves behind: the VMA table
\* and index, the VMA returned with its unbind_link list, an error, whether
\* an XE_BUG_ON fired, whether rb_erase was applied to a node off the tree.
LookupResult(tab, idx, v, link, err, bug, ub) ==
    [tab |-> tab, idx |-> idx, vma |-> v, link |-> link, err |-> err,
     bug |-> bug, ub |-> ub]

RECURSIVE WalkNext(_, _, _, _, _)
\* The rb_next loop of vm_unbind_lookup_vmas.
WalkNext(tab, sorted, p, lo, hi) ==
    IF p + 1 > Len(sorted) THEN <<>>
    ELSE IF xe_vma_cmp_vma_cb(lo, hi, tab[sorted[p + 1]]) = 0
    THEN <<sorted[p + 1]>> \o WalkNext(tab, sorted, p + 1, lo, hi)
    ELSE <<>>

RECURSIVE WalkPrev(_, _, _, _, _)
\* The rb_prev loop of vm_unbind_lookup_vmas; list_add puts each at the head.
WalkPrev(tab, sorted, p, lo, hi) ==
    IF p - 1 < 1 THEN <<>>
    ELSE IF xe_vma_cmp_vma_cb(lo, hi, tab[sorted[p - 1]]) = 0
    THEN WalkPrev(tab, sorted, p - 1, lo, hi) \o <<sorted[p - 1]>>
    ELSE <<>>

\* vm_unbind_lookup_vmas once the VMAs before (prevs) and after (nexts) the
\* one found are collected: the split of the first and the last VMA.
munmap_split(sz, tab, idx, lo, hi, v, prevs, nexts) ==
    LET first == IF prevs # <<>> THEN prevs[1] ELSE v
        last == IF nexts # <<>> THEN nexts[Len(nexts)] ELSE v
        mkfirst == tab[first].start # lo
        mklast == tab[last].end # hi
        chunk == hi + 1 - tab[last].start
        bug == \/ mkfirst /\ xe_vma_create_bug(tab[first].start, lo - 1, sz)
               \/ mklast /\ xe_vma_create_bug(tab[last].start + chunk,
                                              tab[last].end, sz)
        new_first == [xe_vma_userptr_pin_pages(
                          xe_vma_create(tab[first].bo, tab[first].off,
                                        tab[first].start, lo - 1))
                        EXCEPT !.initial_bind = (tab[first].bo = 0),
                               !.last_munmap_rebind = ~mklast]
        new_last == [xe_vma_userptr_pin_pages(
                         xe_vma_create(tab[last].bo, tab[last].off + chunk,
                                       tab[last].start + chunk, tab[last].end))
                        EXCEPT !.initial_bind = (tab[last].bo = 0),
                               !.last_munmap_rebind = TRUE]
        link0 == prevs \o nexts
        flagged == IF ~(mkfirst \/ mklast) THEN NoVma
                   ELSE IF link0 = <<>> THEN v ELSE link0[1]
        victims == {v} \cup SeqToSet(link0)
        tab1 == [i \in 1 .. Len(tab) |->
                   IF i \in victims
                   THEN [tab[i] EXCEPT !.destroyed = TRUE,
                                       !.first_munmap_rebind =
                                           (@ \/ i = flagged)]
                   ELSE tab[i]]
        added == (IF mkfirst THEN <<new_first>> ELSE <<>>)
                 \o (IF mklast THEN <<new_last>> ELSE <<>>)
        nadded == (IF mkfirst THEN 1 ELSE 0) + (IF mklast THEN 1 ELSE 0)
        ids == [n \in 1 .. nadded |-> Len(tab) + n]
    IN IF bug THEN LookupResult(tab, idx, NoVma, <<>>, 0, TRUE, FALSE)
       ELSE LookupResult(tab1 \o added, (idx \ victims) \cup SeqToSet(ids),
                         v, link0 \o ids, 0, FALSE, FALSE)

\* The rb_prev and rb_next walks from the VMA found, over the index in order.
munmap_walk(sz, tab, idx, lo, hi, v, sorted) ==
    munmap_split(sz, tab, idx, lo, hi, v,
        WalkPrev(tab, sorted, CHOOSE n \in 1 .. Len(sorted) : sorted[n] = v,
                 lo, hi),
        WalkNext(tab, sorted, CHOOSE n \in 1 .. Len(sorted) : sorted[n] = v,
                 lo, hi))

munmap_found(sz, tab, idx, lo, hi, v) ==
    IF v = NoVma THEN LookupResult(tab, idx, NoVma, <<>>, 0, TRUE, FALSE)
    ELSE munmap_walk(sz, tab, idx, lo, hi, v, SortVmas(tab, idx))

vm_unbind_lookup_vmas(sz, tab, idx, lo, hi, k) ==
    munmap_found(sz, tab, idx, lo, hi,
                 xe_vm_find_overlapping_vma(sz, tab, idx, lo, hi, k))

vm_unbind_all_lookup_vmas(tab, idx, bo) ==
    LET L == BoVmas(tab, bo, 1) IN
    IF L = <<>>
    THEN LookupResult(tab, idx, NoVma, <<>>, 0 - EINVAL, FALSE, FALSE)
    ELSE LookupResult([i \in 1 .. Len(tab) |->
                         IF i \in SeqToSet(L)
                         THEN [tab[i] EXCEPT !.destroyed = TRUE] ELSE tab[i]],
                      idx \ SeqToSet(L), L[1], Tail(L), 0, FALSE,
                      \E i \in SeqToSet(L) : i \notin idx)

vm_bind_ioctl_lookup_vma(sz, tab, idx, op, k) ==
    LET lo == op.addr
        hi == op.addr + op.range - 1
        id == Len(tab) + 1
    IN CASE op.kind \in {"MAP", "MAP_USERPTR"} ->
              IF xe_vma_create_bug(lo, hi, sz)
              THEN LookupResult(tab, idx, NoVma, <<>>, 0, TRUE, FALSE)
              ELSE LookupResult(
                       Append(tab, xe_vma_userptr_pin_pages(
                                       xe_vma_create(op.obj, op.obj_offset,
                                                     lo, hi))),
                       xe_vm_insert_vma(idx, id), id, <<>>, 0, FALSE, FALSE)
         [] op.kind = "UNMAP" -> vm_unbind_lookup_vmas(sz, tab, idx, lo, hi, k)
         [] OTHER -> vm_unbind_all_lookup_vmas(tab, idx, op.obj)

\* One pass of the second loop under vm->lock in xe_vm_bind_ioctl: the
\* result r of vm_bind_ioctl_lookup_vma goes into vmas[].
lookup_step(st, r) ==
    [tab |-> r.tab, idx |-> r.idx,
     out |-> IF r.err # 0 \/ r.bug THEN st.out
             ELSE Append(st.out, [vma |-> r.vma, link |-> r.link]),
     err |-> r.err, bug |-> r.bug, ub |-> st.ub \/ r.ub]

RECURSIVE lookup_loop(_, _, _, _, _)
\* The second loop under vm->lock in xe_vm_bind_ioctl, from position n on;
\* st.out collects vmas[] with each VMA's unbind_link list.
lookup_loop(sz, st, ops, n, k) ==
    IF n > Len(ops) \/ st.err # 0 \/ st.bug THEN st
    ELSE lookup_loop(sz,
             lookup_step(st, vm_bind_ioctl_lookup_vma(sz, st.tab, st.idx,
                                                      ops[n], k)),
             ops, n + 1, k)


(* ------------------ the bind ioctl: queueing async ops ---------------- *)
\* A struct async_op_fence.  installed: a signalling sync of the caller
\* points at it.  upd: the page-table update fence its callback sits on
\* ("none", "pending", "signaled").
async_op_fence(installed) ==
    [signaled |-> ~installed, installed |-> installed, upd |-> "none"]

\* A struct async_op; serial is its position in the order of enqueueing.
async_op(v, kind, force, addr, range, fence, sn) ==
    [vma |-> v, kind |-> kind, force |-> force, addr |-> addr,
     range |-> range, fence |-> fence, serial |-> sn]

\* __vm_bind_ioctl_async with list_add in place of list_add_tail: the new
\* operation goes to the head of the queue.
vm_bind_ioctl_async_list_add(q, err, v, kind, force, addr, range, nin, nout) ==
    LET has == nin + nout > 0
        f == IF has THEN Len(q.fences) + 1 ELSE NoFence
    IN [pending |-> <<async_op(v, kind, force, addr, range, f, q.serial + 1)>>
                    \o q.pending,
        fences |-> IF has THEN Append(q.fences, async_op_fence(nout > 0))
                   ELSE q.fences,
        serial |-> q.serial + 1,
        kick |-> q.kick \/ err = 0]

\* __vm_bind_ioctl_async on the queue state q = [pending, fences, serial,
\* kick]; nin and nout count the caller's wait and signal syncs.
\* xe_sync_entry_signal reports an installed fence for a signalling sync.
vm_bind_ioctl_async_one(q, err, v, kind, force, addr, range, nin, nout) ==
    LET has == nin + nout > 0
        f == IF has THEN Len(q.fences) + 1 ELSE NoFence
    IN [pending |-> Append(q.pending,
                       async_op(v, kind, force, addr, range, f, q.serial + 1)),
        fences |-> IF has THEN Append(q.fences, async_op_fence(nout > 0))
                   ELSE q.fences,
        serial |-> q.serial + 1,
        kick |-> q.kick \/ err = 0]

RECURSIVE enqueue_unbinds(_, _, _, _, _, _)
\* First loop of vm_bind_ioctl_async over the destroyed VMAs of the list.
enqueue_unbinds(q, err, D, n, op, nin) ==
    IF n > Len(D) THEN q
    ELSE enqueue_unbinds(
             vm_bind_ioctl_async_one(q, err, D[n], op.kind, op.force, op.addr,
                                     op.range, IF n = 1 THEN nin ELSE 0, 0),
             err, D, n + 1, op, nin)

RECURSIVE enqueue_rebinds(_, _, _, _, _, _, _)
\* Last loop of vm_bind_ioctl_async over the replacement VMAs.
enqueue_rebinds(q, err, tab, R, n, op, nout) ==
    IF n > Len(R) THEN q
    ELSE enqueue_rebinds(
             vm_bind_ioctl_async_one(q, err, R[n],
                 IF tab[R[n]].bo = 0 THEN "MAP_USERPTR" ELSE "MAP",
                 FALSE, op.addr, op.range, 0,
                 IF n = Len(R) THEN nout ELSE 0),
             err, tab, R, n + 1, op, nout)

vm_bind_ioctl_async(q, err, tab, v, link, op, nin, nout) ==
    IF link = <<>>
    THEN vm_bind_ioctl_async_one(q, err, v, op.kind, op.force, op.addr,
                                 op.range, nin, nout)
    ELSE LET D == SelectSeq(link, LAMBDA i : tab[i].destroyed)
             R == SelectSeq(link, LAMBDA i : ~tab[i].destroyed)
             first == D = <<>>
             last == R = <<>>
             q1 == enqueue_unbinds(q, err, D, 1, op, nin)
             q2 == vm_bind_ioctl_async_one(q1, err, v, op.kind, op.force,
                       op.addr, op.range,
                       IF first THEN nin ELSE 0,
                       IF ~first /\ last THEN nout ELSE 0)
         IN enqueue_rebinds(q2, err, tab, R, 1, op, nout)

RECURSIVE enqueue_loop(_, _, _, _, _, _, _, _)
\* The third loop under vm->lock in xe_vm_bind_ioctl, async case; the
\* wait syncs go to the first operation and the signal syncs to the last.
enqueue_loop(q, err, tab, out, ops, j, nin, nout) ==
    IF j > Len(ops) THEN q
    ELSE LET one == Len(ops) = 1
             jin == IF one \/ j = 1 THEN nin ELSE 0
             jout == IF one \/ (j = Len(ops) /\ j # 1) THEN nout ELSE 0
         IN enqueue_loop(
                vm_bind_ioctl_async(q, err, tab, out[j].vma, out[j].link,
                                    ops[j], jin, jout),
                err, tab, out, ops, j + 1, nin, nout)


(* ---------------------- executing one operation ----------------------- *)
\* Outcomes of undefined behaviour: a kernel oops, or the stray value acts
\* as an error pointer, as NULL, or as a fence that has already signalled.
UBOutcomes == {"oops", "err", "null", "stale"}

SignalFence(fs, f) ==
    IF f = NoFence THEN fs ELSE [fs EXCEPT ![f].signaled = TRUE]

\* add_async_op_fence_cb: the callback is put on the update fence; when
\* that fence has signalled already (-ENOENT) the op fence is signalled.
add_async_op_fence_cb(fs, f, done) ==
    IF f = NoFence THEN fs
    ELSE IF done THEN [fs EXCEPT ![f].signaled = TRUE, ![f].upd = "signaled"]
    ELSE [fs EXCEPT ![f].upd = "pending"]

PtWrite(tr, v) ==
    [p \in DOMAIN tr |-> IF p >= v.start /\ p <= v.end
                     THEN [bo |-> v.bo, off |-> v.off + (p - v.start)]
                     ELSE tr[p]]

PtClear(tr, v) ==
    [p \in DOMAIN tr |->
        IF p >= v.start /\ p <= v.end THEN Empty ELSE tr[p]]

ExecResult(tab, tr, fs, err, oops, kick) ==
    [tab |-> tab, pt |-> tr, fences |-> fs, err |-> err, oops |-> oops,
     kick |-> kick]

\* xe_vm_bind_vma under __xe_vm_bind: writes the VMA's translations; a
\* rebind on a VM with dma fences waits for the update fence.
xe_vm_bind(mode, tab, tr, fs, v, f) ==
    LET rebind == tab[v].gt_present
        nodma == mode \in {"compute", "fault"}
    IN ExecResult([tab EXCEPT ![v].gt_present = TRUE, ![v].dirty = FALSE,
                              ![v].initial_bind = TRUE],
                  PtWrite(tr, tab[v]),
                  add_async_op_fence_cb(fs, f, rebind /\ ~nodma),
                  0, FALSE,
                  ~rebind /\ tab[v].last_munmap_rebind /\ mode = "compute")

\* xe_vm_unbind over xe_vm_unbind_vma: with no GT present the fence it
\* returns was never assigned, and ub says what the stray value does.
xe_vm_unbind(tab, tr, fs, v, f, ub) ==
    IF tab[v].gt_present
    THEN ExecResult(xe_vma_destroy([tab EXCEPT ![v].gt_present = FALSE], v),
                    PtClear(tr, tab[v]),
                    add_async_op_fence_cb(fs, f, FALSE), 0, FALSE, FALSE)
    ELSE CASE ub = "oops" -> ExecResult(tab, tr, fs, 0, TRUE, FALSE)
           [] ub = "err" -> ExecResult(tab, tr, fs, 0 - ENOMEM, FALSE, FALSE)
           [] ub = "null" ->
                ExecResult(xe_vma_destroy(tab, v), tr, fs, 0, FALSE, FALSE)
           [] OTHER ->
                ExecResult(xe_vma_destroy(tab, v), tr,
                           add_async_op_fence_cb(fs, f, TRUE), 0, FALSE, FALSE)

\* vm_bind_ioctl with __vm_bind_ioctl.  fail: one of the allocations or
\* reservations on the way fails.  A freed VMA is read as it was left.
vm_bind_ioctl(mode, tab, tr, fs, v, kind, f, fail, ub) ==
    IF tab[v].freed /\ ub = "oops"
    THEN ExecResult(tab, tr, fs, 0, TRUE, FALSE)
    ELSE IF mode = "fault" /\ kind \in {"MAP", "MAP_USERPTR"}
    THEN ExecResult(tab, tr, SignalFence(fs, f), 0, FALSE, FALSE)
    ELSE IF fail THEN ExecResult(tab, tr, fs, 0 - ENOMEM, FALSE, FALSE)
    ELSE IF kind \in {"MAP", "MAP_USERPTR"}
    THEN xe_vm_bind(mode, tab, tr, fs, v, f)
    ELSE xe_vm_unbind(tab, tr, fs, v, f, ub)

\* Whether the outcome of undefined behaviour matters to this execution.
ExecHasUB(mode, tab, v, kind) ==
    \/ tab[v].freed
    \/ /\ kind \in {"UNMAP", "UNMAP_ALL"}
       /\ ~tab[v].gt_present


(* --------------------------- the page-table tree ---------------------- *)
\* A node (struct xe_pt, struct xe_pt_dir) is a record of its level, its
\* num_live and its entries; an entry is empty, a PTE (a page of a leaf, a
\* huge page of a directory, where pt_dir->entries[i] is NULL), or a child
\* node.  Addresses are page numbers, ranges [start, end) as in the source.
\* num_live is kept as an integer: a value below zero stands for the
\* unsigned value that wrapped, and like it equals no count of entries.
PtEmpty == [kind |-> "empty"]
\* gen8_pte_encode: the PTE of address addr of a VMA points at the page of
\* its backing store at vma->bo_offset + (addr - vma->start).
PtPte(v, addr) ==
    [kind |-> "pte", bo |-> v.bo, page |-> v.off + (addr - v.start)]

\* xe_pt_create
xe_pt_create(level) ==
    [kind |-> "pt", level |-> level, num_live |-> 0,
     slots |-> [i \in 1 .. PtEntries |-> PtEmpty]]

Min(a, b) == IF a < b THEN a ELSE b
Max(a, b) == IF a > b THEN a ELSE b

\* 1 << (xe_pt_shift(level) - GEN8_PTE_SHIFT): the pages under one entry.
xe_pt_span(level) == PtEntries ^ level

\* The address space of the tree, as xe_vm_create sets vm->size.
PtSize == xe_pt_span(PtRootLevel + 1)

xe_pt_idx(addr, level) == (addr \div xe_pt_span(level)) % PtEntries

xe_pt_next_start(start, level) ==
    ((start + xe_pt_span(level)) \div xe_pt_span(level)) * xe_pt_span(level)

xe_pt_prev_end(end, level) ==
    ((end - 1) \div xe_pt_span(level)) * xe_pt_span(level)

xe_pt_partial_entry(start, end, level) == start + xe_pt_span(level) # end

\* Handle 0 is a userptr, handle 1 a buffer object placed in VRAM, any
\* other handle a buffer object placed in system memory.  The pages of a
\* buffer object are one run of consecutive pages that starts on a
\* boundary of the largest entry.
mem_type_is_vram(bo) == bo = 1

\* xe_pte_hugepage_possible with huge entries at level 1 only.
xe_pte_hugepage_possible_2m(v, level, start, end) ==
    /\ level <= 1
    /\ start + xe_pt_span(level) = end
    /\ v.bo # 0
    /\ mem_type_is_vram(v.bo)
    /\ (v.off + (start - v.start)) % xe_pt_span(level) = 0

\* xe_pte_hugepage_possible: the resource cursor of a buffer object in
\* VRAM starts at its offset in the one block, cur.size covers the entry.
xe_pte_hugepage_possible(v, level, start, end) ==
    /\ level <= 2
    /\ start + xe_pt_span(level) = end
    /\ v.bo # 0
    /\ mem_type_is_vram(v.bo)
    /\ (v.off + (start - v.start)) % xe_pt_span(level) = 0

\* The part [cur, cur_end) of [start, end) under entry i (from 0) of a
\* node of this level.
SlotCur(start, level, i) ==
    Max(start, ((start \div xe_pt_span(level + 1)) * PtEntries + i)
               * xe_pt_span(level))
SlotEnd(start, end, level, i) ==
    Min(end, ((start \div xe_pt_span(level + 1)) * PtEntries + i + 1)
             * xe_pt_span(level))

RECURSIVE xe_pt_populate_for_vma(_, _, _, _, _)
\* xe_pt_populate_for_vma on a node just created.
xe_pt_populate_for_vma(v, node, start, end, rebind) ==
    LET so == xe_pt_idx(start, node.level)
        lo == xe_pt_idx(end - 1, node.level)
    IN IF node.level = 0
       THEN [node EXCEPT
               !.num_live = @ + lo + 1 - so,
               !.slots = [i \in 1 .. PtEntries |->
                            IF i - 1 >= so /\ i - 1 <= lo
                            THEN PtPte(v, SlotCur(start, 0, i - 1))
                            ELSE node.slots[i]]]
       ELSE [node EXCEPT
               !.num_live = IF rebind THEN @ ELSE @ + lo + 1 - so,
               !.slots = [i \in 1 .. PtEntries |->
                            IF i - 1 < so \/ i - 1 > lo THEN node.slots[i]
                            ELSE IF xe_pte_hugepage_possible(v, node.level,
                                        SlotCur(start, node.level, i - 1),
                                        SlotEnd(start, end, node.level, i - 1))
                            THEN PtPte(v, SlotCur(start, node.level, i - 1))
                            ELSE xe_pt_populate_for_vma(v,
                                     xe_pt_create(node.level - 1),
                                     SlotCur(start, node.level, i - 1),
                                     SlotEnd(start, end, node.level, i - 1),
                                     rebind)]]

RECURSIVE xe_pt_bind(_, _, _, _, _)
\* __xe_pt_prepare_bind on a node, the migrate job that writes the entries
\* and xe_pt_commit_bind of the updates prepared: the node afterwards.
xe_pt_bind_dir(v, node, start, end, rebind, so, lo, pb, pe) ==
    LET added == lo + 1 - so - (IF pb THEN 1 ELSE 0) - (IF pe THEN 1 ELSE 0)
    IN [node EXCEPT
          !.num_live = IF rebind THEN @ ELSE @ + added,
          !.slots = [i \in 1 .. PtEntries |->
              IF i - 1 < so \/ i - 1 > lo THEN node.slots[i]
              ELSE IF (pb /\ i - 1 = so) \/ (pe /\ i - 1 = lo)
              THEN xe_pt_bind(v, node.slots[i],
                              SlotCur(start, node.level, i - 1),
                              SlotEnd(start, end, node.level, i - 1), rebind)
              ELSE IF xe_pte_hugepage_possible(v, node.level,
                          SlotCur(start, node.level, i - 1),
                          SlotEnd(start, end, node.level, i - 1))
              THEN PtPte(v, SlotCur(start, node.level, i - 1))
              ELSE xe_pt_populate_for_vma(v, xe_pt_create(node.level - 1),
                       SlotCur(start, node.level, i - 1),
                       SlotEnd(start, end, node.level, i - 1), rebind)]]

xe_pt_bind(v, node, start, end, rebind) ==
    LET so == xe_pt_idx(start, node.level)
        lo == xe_pt_idx(end - 1, node.level)
    IN IF node.level = 0
       THEN [node EXCEPT
               !.num_live = IF rebind THEN @ ELSE @ + lo + 1 - so,
               !.slots = [i \in 1 .. PtEntries |->
                            IF i - 1 >= so /\ i - 1 <= lo
                            THEN PtPte(v, SlotCur(start, 0, i - 1))
                            ELSE node.slots[i]]]
       ELSE xe_pt_bind_dir(v, node, start, end, rebind, so, lo,
                /\ node.slots[so + 1].kind = "pt"
                /\ xe_pt_partial_entry(start,
                       Min(xe_pt_next_start(start, node.level), end),
                       node.level),
                /\ node.slots[lo + 1].kind = "pt"
                /\ lo > so
                /\ xe_pt_partial_entry(
                       Max(start, xe_pt_prev_end(end, node.level)), end,
                       node.level))

\* __xe_pt_prepare_unbind on a directory that never hands itself to its
\* parent for removal: every node is treated as the root is.
xe_pt_unbind_dir_keep(node, isroot, so, lo, whole, r) ==
    [node |-> [node EXCEPT
                 !.num_live = @ - Cardinality({i \in so .. lo : r[i + 1].rem}),
                 !.slots = [i \in 1 .. PtEntries |->
                              IF i - 1 < so \/ i - 1 > lo THEN node.slots[i]
                              ELSE IF r[i].rem THEN PtEmpty ELSE r[i].node]],
     rem |-> FALSE]

\* __xe_pt_prepare_unbind on a directory that hands itself to its parent
\* for removal as soon as one of its entries goes, whatever num_live says.
xe_pt_unbind_dir_greedy(node, isroot, so, lo, whole, r) ==
    IF isroot THEN xe_pt_unbind_dir_keep(node, isroot, so, lo, whole, r)
    ELSE [node |-> node,
          rem |-> whole \/ \E i \in so .. lo : r[i + 1].rem]

\* __xe_pt_prepare_unbind on a directory without the test for the root:
\* a root whose live entries all go hands itself over for removal too.
xe_pt_unbind_dir_root(node, isroot, so, lo, whole, r) ==
    LET rm == {i \in so .. lo : r[i + 1].rem}
        removed == IF whole THEN 0 ELSE Cardinality(rm)
    IN IF ~whole /\ removed > 0 /\ node.num_live = removed
       THEN [node |-> node, rem |-> TRUE]
       ELSE xe_pt_unbind_dir_keep(node, isroot, so, lo, whole, r)

RECURSIVE xe_pt_unbind(_, _, _, _)
\* The outcome of __xe_pt_prepare_unbind on the entries so .. lo of a
\* directory: r[i] is the outcome on the child under entry i, NULL children
\* and whole children the parent is to remove counted as removed.
xe_pt_unbind_dir(node, isroot, so, lo, whole, r) ==
    LET rm == {i \in so .. lo : r[i + 1].rem}
        removed == IF whole THEN 0 ELSE Cardinality(rm)
        first_ofs == IF rm = {} THEN so
                     ELSE CHOOSE i \in rm : \A j \in rm : i <= j
        kept == [i \in 1 .. PtEntries |->
                   IF i - 1 >= so /\ i - 1 <= lo /\ ~whole /\ ~r[i].rem
                   THEN r[i].node ELSE node.slots[i]]
    IN IF whole THEN [node |-> node, rem |-> TRUE]
       ELSE IF removed = 0
       THEN [node |-> [node EXCEPT !.slots = kept], rem |-> FALSE]
       ELSE IF ~isroot /\ node.num_live = removed
       THEN [node |-> node, rem |-> TRUE]
       ELSE [node |-> [node EXCEPT
                         !.num_live = @ - removed,
                         !.slots = [i \in 1 .. PtEntries |->
                                      IF i - 1 >= first_ofs
                                         /\ i - 1 < first_ofs + removed
                                      THEN PtEmpty ELSE kept[i]]],
             rem |-> FALSE]

\* __xe_pt_prepare_unbind on a node, the migrate job that clears the
\* entries and xe_pt_commit_unbind of the updates prepared: the node
\* afterwards, and whether the parent is to remove it (rem).
xe_pt_unbind(node, start, end, isroot) ==
    LET so == xe_pt_idx(start, node.level)
        lo == xe_pt_idx(end - 1, node.level)
    IN IF node.kind # "pt" THEN [node |-> node, rem |-> TRUE]
       ELSE IF node.level = 0
       THEN IF ~isroot /\ node.num_live = lo - so + 1
            THEN [node |-> node, rem |-> TRUE]
            ELSE [node |-> [node EXCEPT
                              !.num_live = @ - (lo - so + 1),
                              !.slots = [i \in 1 .. PtEntries |->
                                           IF i - 1 >= so /\ i - 1 <= lo
                                           THEN PtEmpty ELSE node.slots[i]]],
                  rem |-> FALSE]
       ELSE xe_pt_unbind_dir(node, isroot, so, lo,
                /\ lo + 1 - so = PtEntries
                /\ \/ node.slots[so + 1].kind # "pt"
                   \/ ~xe_pt_partial_entry(start,
                          Min(xe_pt_next_start(start, node.level), end),
                          node.level)
                /\ \/ node.slots[lo + 1].kind # "pt"
                   \/ ~xe_pt_partial_entry(
                          Max(start, xe_pt_prev_end(end, node.level)), end,
                          node.level),
                [i \in 1 .. PtEntries |->
                    IF i - 1 < so \/ i - 1 > lo
                    THEN [node |-> node.slots[i], rem |-> FALSE]
                    ELSE xe_pt_unbind(node.slots[i],
                             SlotCur(start, node.level, i - 1),
                             SlotEnd(start, end, node.level, i - 1), FALSE)])

(* ------------------------------ inputs -------------------------------- *)
\* VM flags xe_vm_create_ioctl accepts (compute and fault mode exclude
\* each other, an error capture address needs async bind ops); the VMs
\* looked at here.
VmFlagSets ==
    {[async |-> FALSE, mode |-> "none", capture |-> FALSE],
     [async |-> TRUE, mode |-> "none", capture |-> TRUE],
     [async |-> TRUE, mode |-> "compute", capture |-> FALSE],
     [async |-> TRUE, mode |-> "fault", capture |-> FALSE]}

bind_op(kind, async, force, addr, range, obj, off) ==
    [kind |-> kind, async |-> async, force |-> force, addr |-> addr,
     range |-> range, obj |-> obj, obj_offset |-> off]

\* Address/range pairs inside the VM, and two that are not: the empty
\* range and one reaching a page past the end.
AddrRanges ==
    {ar \in Pages \X (1 .. NumPages) : ar[1] + ar[2] <= NumPages}
BadRanges == {<<0, 0>>, <<NumPages - 1, 2>>}

\* One operation per ioctl: MAP of the buffer object over each range,
\* synchronous, async, and async with FORCE_ASYNC_OP_ERROR; MAP_USERPTR
\* over the whole address space; UNMAP of each range; UNMAP_ALL; RESTART;
\* and three MAPs the argument checks turn away.
SingleOps ==
    {bind_op("MAP", m[1], m[2], ar[1], ar[2], 1, 0) :
        m \in {<<FALSE, FALSE>>, <<TRUE, FALSE>>, <<TRUE, TRUE>>},
        ar \in AddrRanges}
    \cup {bind_op("MAP_USERPTR", a, FALSE, 0, NumPages, 0, 0) : a \in BOOLEAN}
    \cup {bind_op("UNMAP", a, FALSE, ar[1], ar[2], 0, 0) :
            a \in BOOLEAN, ar \in AddrRanges}
    \cup {bind_op("UNMAP_ALL", a, FALSE, 0, 0, 1, 0) : a \in BOOLEAN}
    \cup {bind_op("RESTART", TRUE, FALSE, 0, 0, 0, 0)}
    \cup {bind_op("MAP", FALSE, FALSE, ar[1], ar[2], 1, 0) : ar \in BadRanges}
    \cup {bind_op("MAP", FALSE, FALSE, 0, 1, 0, 0)}

\* Vectors of binds: two well-formed async operations on single pages, the
\* first on page 0.
VectorOps ==
    {o \in SingleOps :
        /\ o.async /\ ~o.force
        /\ o.kind \in {"MAP", "UNMAP"}
        /\ o.range = 1}

BindInputs ==
    {<<o>> : o \in SingleOps}
    \cup {<<a, b>> : a \in {o \in VectorOps : o.addr = 0}, b \in VectorOps}

\* Syncs of an ioctl: none, or one to wait for and one to signal.
SyncInputs == {[nin |-> 0, nout |-> 0], [nin |-> 1, nout |-> 1]}
NoSyncs == [nin |-> 0, nout |-> 0]

\* The inputs that can change what the ioctl does with these operations:
\* syncs reach only async ops and RESTART, the shape of the rb-tree only
\* an UNMAP, a failing allocation only the synchronous bind.
SyncsFor(ops) ==
    IF ops[1].async \/ ops[1].kind = "RESTART" THEN SyncInputs ELSE {NoSyncs}
ShapesFor(ops) ==
    IF \E n \in 1 .. Len(ops) : ops[n].kind = "UNMAP"
    THEN 1 .. NumPages ELSE {1}
FailsFor(ops, budget) ==
    IF ~ops[1].async /\ budget < MaxFail THEN BOOLEAN ELSE {FALSE}

NoOp == async_op(NoVma, "NONE", FALSE, 0, 0, NoFence, 0)
NoArgs == [aerr |-> 0]
NoCapture == [error |-> 0, op |-> "NONE", addr |-> 0, size |-> 0]
Idle == [queued |-> FALSE, running |-> FALSE]

(* ------------------------------- Init --------------------------------- *)
\* No compute engine, no preempt fence, no userptr pin: xe_vm_create.
PreemptNone ==
    /\ engines = <<>>
    /\ pfences = <<>>
    /\ resume_go = 0
    /\ userptr = <<>>
    /\ npc = 0
    /\ ri = 0
    /\ usm = <<>>
    /\ mig = <<>>
    /\ walk = <<>>
    /\ upin = <<>>

Init ==
    /\ pt_root = xe_pt_create(PtRootLevel)
    /\ PreemptNone
    /\ flags \in VmFlagSets
    /\ size = VmSize
    /\ vma = <<>>
    /\ vmas = {}
    /\ pt = [p \in Pages |-> Empty]
    /\ pending = <<>>
    /\ async_error = 0
    /\ munmap_rebind_inflight = FALSE
    /\ capture = NoCapture
    /\ fences = <<>>
    /\ lock = "free"
    /\ wq = Idle
    /\ wpc = "idle"
    /\ wop = NoOp
    /\ ipc = "idle"
    /\ iargs = NoArgs
    /\ iret = 0
    /\ nioctl = 0
    /\ cpc = "open"
    /\ rq = Idle
    /\ rpc = "idle"
    /\ nfail = 0
    /\ ninval = 0
    /\ serial = 0
    /\ hist = [done |-> 0, failed |-> 0, busy |-> FALSE]


(* --------------------------- xe_vm_bind_ioctl ------------------------- *)
Fails == IF nfail < MaxFail THEN BOOLEAN ELSE {FALSE}

IoctlReturn(err) ==
    /\ ipc' = "idle"
    /\ iret' = err
    /\ iargs' = NoArgs

\* An XE_BUG_ON or an oops in the ioctl: the thread dies holding vm->lock.
IoctlCrash ==
    /\ ipc' = "crashed"
    /\ lock' = "ioctl"
    /\ iargs' = NoArgs
    /\ iret' = iret

\* The same checks with RESTART let through on a VM that is not in the error
\* state.
xe_vm_bind_ioctl_checks_any_restart(ops, sy, found, sz, aerr) ==
    LET e1 == vm_bind_ioctl_check_args(ops)
        e2 == IF ~flags.async THEN 0 - ENOTSUPP
              ELSE IF sy.nin + sy.nout > 0 THEN EINVAL
              ELSE 0
        e3 == range_checks(ops, sz)
        ret(e) == [pc |-> "idle", ret |-> e]
    IN IF e1 # 0 THEN ret(e1)
       ELSE IF ~found THEN ret(0)
       ELSE IF xe_vm_is_closed(sz) THEN ret(0 - ENOENT)
       ELSE IF ops[1].kind = "RESTART"
       THEN (IF e2 # 0 THEN ret(e2) ELSE [pc |-> "restart", ret |-> 0])
       ELSE IF aerr = 0 /\ ops[1].async # flags.async
       THEN ret(0 - ENOTSUPP)
       ELSE IF e3 # 0 THEN ret(e3)
       ELSE [pc |-> "commit", ret |-> 0]

\* xe_vm_bind_ioctl up to down_write_killable(&vm->lock): argument checks,
\* the VM lookup, the closed check, and the checks against vm->flags,
\* vm->async_ops.error (aerr) and vm->size (sz).  found: xe_vm_lookup
\* still finds the VM (xe_vm_destroy_ioctl erases the handle before
\* closing).  The result names where the ioctl goes on, or what it returns.
xe_vm_bind_ioctl_checks(ops, sy, found, sz, aerr) ==
    LET e1 == vm_bind_ioctl_check_args(ops)
        e2 == IF ~flags.async THEN 0 - ENOTSUPP
              ELSE IF sy.nin + sy.nout > 0 THEN EINVAL
              ELSE IF aerr = 0 THEN 0 - EPROTO
              ELSE 0
        e3 == range_checks(ops, sz)
        ret(e) == [pc |-> "idle", ret |-> e]
    IN IF e1 # 0 THEN ret(e1)
       ELSE IF ~found THEN ret(0)
       ELSE IF xe_vm_is_closed(sz) THEN ret(0 - ENOENT)
       ELSE IF ops[1].kind = "RESTART"
       THEN (IF e2 # 0 THEN ret(e2) ELSE [pc |-> "restart", ret |-> 0])
       ELSE IF aerr = 0 /\ ops[1].async # flags.async
       THEN ret(0 - ENOTSUPP)
       ELSE IF e3 # 0 THEN ret(e3)
       ELSE [pc |-> "commit", ret |-> 0]

\* The ioctl runs its checks; one that passes them goes on to take
\* vm->lock.  The thread keeps what it read of vm->async_ops.error; its
\* arguments are its own and are drawn again where they are used next.
xe_vm_bind_ioctl_begin(r) ==
    /\ ipc = "idle"
    /\ nioctl < MaxIoctls
    /\ nioctl' = nioctl + 1
    /\ IF r.pc = "idle" THEN IoctlReturn(r.ret)
       ELSE /\ ipc' = r.pc
            /\ iargs' = [aerr |-> async_error]
            /\ iret' = iret
    /\ UNCHANGED <<pvars, pt_root, flags, size, vma, vmas, pt, pending, async_error,
                   munmap_rebind_inflight, capture, fences, lock, wq, wpc,
                   wop, cpc, rq, rpc, nfail, ninval, serial, hist>>

\* What the checks can answer for the inputs user space may pass now.
BeginResults ==
    UNION {{xe_vm_bind_ioctl_checks(ops, sy, found, size, async_error) :
                sy \in SyncsFor(ops),
                found \in (IF xe_vm_is_closed(size) THEN BOOLEAN ELSE {TRUE})} :
           ops \in BindInputs}

IoctlBegin ==
    /\ ipc = "idle"
    /\ nioctl < MaxIoctls
    /\ \E r \in BeginResults : xe_vm_bind_ioctl_begin(r)

\* XE_VM_BIND_OP_RESTART once its checks passed.
xe_vm_bind_ioctl_restart ==
    /\ ipc = "restart"
    /\ lock = "free"
    /\ async_error' = 0
    /\ wq' = [wq EXCEPT !.queued = TRUE]
    /\ rq' = IF flags.mode = "compute" THEN [rq EXCEPT !.queued = TRUE] ELSE rq
    /\ IoctlReturn(0)
    /\ UNCHANGED <<pvars, pt_root, flags, size, vma, vmas, pt, pending,
                   munmap_rebind_inflight, capture, fences, lock, wpc, wop,
                   nioctl, cpc, rpc, nfail, ninval, serial, hist>>

RECURSIVE destroy_vmas(_, _, _, _)
\* The destroy_vmas loop: the VMAs created for MAP and MAP_USERPTR are
\* destroyed, each as far as vmas[] was filled.
destroy_vmas(tab, out, ops, i) ==
    IF i > Len(out) THEN tab
    ELSE destroy_vmas(IF ops[i].kind \in {"MAP", "MAP_USERPTR"}
                      THEN xe_vma_destroy(tab, out[i].vma) ELSE tab,
                      out, ops, i + 1)

\* The pre-check loop comes to a MAP or MAP_USERPTR whose range intersects
\* a VMA of the index, none of whose VMAs has been freed: every operation
\* before it passes its check.
MapOverVma(tab, idx, ops, k) ==
    \E n \in 1 .. Len(ops) :
        /\ ops[n].kind \in {"MAP", "MAP_USERPTR"}
        /\ \A i \in idx : ~tab[i].freed
        /\ Overlapping(tab, idx, ops[n].addr,
                       ops[n].addr + ops[n].range - 1) # {}
        /\ \A m \in 1 .. (n - 1) :
               lookup_vma_check(OpenSize, tab, idx, ops[m], k) = 0

\* xe_vm_bind_ioctl from down_write_killable(&vm->lock) to the return,
\* given what its loops compute: chk the first error of the pre-check loop,
\* st the outcome of the creation loop, q the queue after the enqueue loop,
\* x the outcome of the synchronous vm_bind_ioctl.
xe_vm_bind_ioctl_finish(ops, sy, fail, ub, busy, chk, st, q, x) ==
    LET rest == <<pvars, pt_root, flags, size, munmap_rebind_inflight, capture, wpc, wop,
                  nioctl, cpc, rpc, ninval, async_error>>
    IN
    /\ ipc = "commit"
    /\ lock = "free"
    /\ xe_vm_bind_ioctl_checks(ops, sy, TRUE, OpenSize, iargs.aerr).pc = "commit"
    /\ UNCHANGED rest
    /\ hist' = [hist EXCEPT !.busy = busy]
    /\ IF (\E i \in vmas : vma[i].freed) /\ ub = "oops"
       THEN \* the lookups walk over a freed node of the index
            /\ IoctlCrash
            /\ UNCHANGED <<vma, vmas, pt, pending, fences, serial, wq, rq,
                           nfail>>
       ELSE IF chk # 0
       THEN /\ IoctlReturn(chk)
            /\ UNCHANGED <<vma, vmas, pt, pending, fences, serial, wq, rq,
                           nfail, lock>>
       ELSE IF st.bug \/ (st.ub /\ ub = "oops")
       THEN /\ IoctlCrash
            /\ vma' = st.tab
            /\ vmas' = st.idx
            /\ UNCHANGED <<pt, pending, fences, serial, wq, rq, nfail>>
       ELSE IF st.err # 0
       THEN \* destroy_vmas with j = 0; the list walk starts from a
            \* pointer that was never assigned
            IF st.out # <<>> /\ ub = "oops"
            THEN /\ IoctlCrash
                 /\ vma' = st.tab
                 /\ vmas' = st.idx
                 /\ UNCHANGED <<pt, pending, fences, serial, wq, rq, nfail>>
            ELSE /\ IoctlReturn(st.err)
                 /\ vma' = destroy_vmas(st.tab, st.out, ops, 1)
                 /\ vmas' = st.idx
                 /\ UNCHANGED <<pt, pending, fences, serial, wq, rq, nfail,
                                lock>>
       ELSE IF ops[1].async
       THEN /\ IoctlReturn(0)
            /\ vma' = st.tab
            /\ vmas' = st.idx
            /\ pending' = q.pending
            /\ fences' = q.fences
            /\ serial' = q.serial
            /\ wq' = IF q.kick THEN [wq EXCEPT !.queued = TRUE] ELSE wq
            /\ UNCHANGED <<pt, rq, nfail, lock>>
       ELSE IF st.out[1].link # <<>> \/ x.oops
       THEN \* XE_BUG_ON(!list_empty(&vma->unbind_link)) in vm_bind_ioctl
            /\ IoctlCrash
            /\ vma' = st.tab
            /\ vmas' = st.idx
            /\ UNCHANGED <<pt, pending, fences, serial, wq, rq, nfail>>
       ELSE IF x.err # 0
       THEN IF ub = "oops"
            THEN /\ IoctlCrash
                 /\ vma' = st.tab
                 /\ vmas' = st.idx
                 /\ nfail' = IF fail THEN nfail + 1 ELSE nfail
                 /\ UNCHANGED <<pt, pending, fences, serial, wq, rq>>
            ELSE /\ IoctlReturn(x.err)
                 /\ vma' = destroy_vmas(x.tab, st.out, ops, 1)
                 /\ vmas' = st.idx
                 /\ nfail' = IF fail THEN nfail + 1 ELSE nfail
                 /\ UNCHANGED <<pt, pending, fences, serial, wq, rq, lock>>
       ELSE /\ IoctlReturn(0)
            /\ vma' = x.tab
            /\ vmas' = st.idx
            /\ pt' = x.pt
            /\ rq' = IF x.kick THEN [rq EXCEPT !.queued = TRUE] ELSE rq
            /\ UNCHANGED <<pending, fences, serial, wq, nfail, lock>>


xe_vm_bind_ioctl_loops(ops, sy, fail, ub, busy, chk, st) ==
    xe_vm_bind_ioctl_finish(ops, sy, fail, ub, busy, chk, st,
        enqueue_loop([pending |-> pending, fences |-> fences,
                      serial |-> serial, kick |-> FALSE],
                     async_error, st.tab, st.out, ops, 1, sy.nin, sy.nout),
        vm_bind_ioctl(flags.mode, st.tab, pt, fences, st.out[1].vma,
                      ops[1].kind, NoFence, fail, ub))

xe_vm_bind_ioctl_locked(ops, sy, k, fail, ub) ==
    xe_vm_bind_ioctl_loops(ops, sy, fail, ub, MapOverVma(vma, vmas, ops, k),
        FirstErr([n \in 1 .. Len(ops) |->
                     lookup_vma_check(size, vma, vmas, ops[n], k)],
                 1, Len(ops)),
        lookup_loop(size, [tab |-> vma, idx |-> vmas, out |-> <<>>,
                           err |-> 0, bug |-> FALSE, ub |-> FALSE],
                    ops, 1, k))

IoctlCommit ==
    /\ ipc = "commit"
    /\ lock = "free"
    /\ \E ops \in BindInputs :
          \E sy \in SyncsFor(ops), k \in ShapesFor(ops),
             fail \in FailsFor(ops, nfail), ub \in UBOutcomes :
              xe_vm_bind_ioctl_locked(ops, sy, k, fail, ub)


(* -------------------------- async_op_work_func ------------------------ *)
\* The breaks at the head of the loop without the one on the sticky error.
async_op_work_break_empty(err, sz, q) == q = <<>>

\* vm_error_capture with nothing copied to user space.
vm_error_capture_none(err, op) == NoCapture

\* vm_error_capture: the record copied to vm->async_ops.error_capture.addr.
vm_error_capture(err, op) ==
    [error |-> err, op |-> op.kind, addr |-> op.addr, size |-> op.range]

\* The two breaks at the head of the loop.
async_op_work_break(err, sz, q) ==
    (err # 0 /\ ~xe_vm_is_closed(sz)) \/ q = <<>>

\* Head of the for (;;) loop: the sticky-error check, the pop of the first
\* pending op, and the closed check that picks the branch.  The workqueue
\* starts the work item when it is queued and never runs it twice at once.
async_op_work_top ==
    IF async_op_work_break(async_error, size, pending)
    THEN /\ wpc' = "idle"
         /\ wq' = [wq EXCEPT !.running = FALSE]
         /\ UNCHANGED <<pending, wop>>
    ELSE /\ wop' = Head(pending)
         /\ pending' = Tail(pending)
         /\ wpc' = IF xe_vm_is_closed(size) THEN "flush" ELSE "lock"
         /\ wq' = [queued |-> wq.queued /\ wpc = "top", running |-> TRUE]

AsyncWorkStart ==
    /\ wq.queued
    /\ ~wq.running
    /\ wpc = "idle"
    /\ IF async_op_work_break(async_error, size, pending)
       THEN /\ wq' = Idle
            /\ UNCHANGED <<pending, wop, wpc>>
       ELSE async_op_work_top
    /\ UNCHANGED <<pvars, pt_root, flags, size, vma, vmas, pt, async_error,
                   munmap_rebind_inflight, capture, fences, lock, ipc, iargs,
                   iret, nioctl, cpc, rq, rpc, nfail, ninval, serial, hist>>

AsyncWorkTop ==
    /\ wpc = "top"
    /\ async_op_work_top
    /\ UNCHANGED <<pvars, pt_root, flags, size, vma, vmas, pt, async_error,
                   munmap_rebind_inflight, capture, fences, lock, ipc, iargs,
                   iret, nioctl, cpc, rq, rpc, nfail, ninval, serial, hist>>

\* The test after vm_bind_ioctl without its munmap_rebind_inflight half.
async_op_in_munmap_first(err, first, kind, inflight) ==
    err = 0 /\ first /\ kind = "UNMAP"

\* The test after vm_bind_ioctl: the operation succeeded and it is the
\* flagged first unbind of a munmap-style sequence or one that follows it.
async_op_in_munmap(err, first, kind, inflight) ==
    err = 0 /\ ((first /\ kind = "UNMAP") \/ inflight)

\* down_write(&vm->lock) and one pass from the label again: to up_write,
\* to the break, or back to again with the next op of a munmap sequence.
async_op_exec(fail, ub) ==
    LET v == wop.vma
        first == vma[v].first_munmap_rebind
        last == vma[v].last_munmap_rebind
        x == IF wop.force
             THEN ExecResult(vma, pt, fences, 0 - ENOMEM, FALSE, FALSE)
             ELSE vm_bind_ioctl(flags.mode, vma, pt, fences, v, wop.kind,
                                wop.fence, fail, ub)
        op == [wop EXCEPT !.force = FALSE]
        seq == async_op_in_munmap(x.err, first, wop.kind,
                                  munmap_rebind_inflight)
    IN
    /\ \/ wpc = "exec"
       \/ wpc = "lock" /\ lock = "free"
    /\ nfail' = IF fail /\ x.err # 0 /\ ~wop.force THEN nfail + 1 ELSE nfail
    /\ IF x.oops \/ (seq /\ ~last /\ pending = <<>>)
       THEN \* an oops, or XE_BUG_ON(!op): the worker dies with the lock
            /\ wpc' = "crashed"
            /\ lock' = "worker"
            /\ vma' = x.tab
            /\ pt' = x.pt
            /\ fences' = x.fences
            /\ UNCHANGED <<pending, async_error, munmap_rebind_inflight,
                           capture, wq, wop, rq, hist>>
       ELSE IF x.err # 0
       THEN /\ pending' = <<op>> \o pending
            /\ async_error' = x.err
            /\ lock' = "free"
            /\ capture' = IF flags.capture THEN vm_error_capture(x.err, op)
                          ELSE capture
            /\ wpc' = "idle"
            /\ wq' = [wq EXCEPT !.running = FALSE]
            /\ wop' = NoOp
            /\ hist' = [hist EXCEPT !.failed = wop.serial]
            /\ UNCHANGED <<vma, pt, fences, munmap_rebind_inflight, rq>>
       ELSE /\ pt' = x.pt
            /\ fences' = x.fences
            /\ rq' = IF x.kick THEN [rq EXCEPT !.queued = TRUE] ELSE rq
            /\ hist' = [hist EXCEPT !.done = wop.serial, !.failed = 0]
            /\ UNCHANGED <<async_error, capture>>
            /\ IF seq /\ ~last
               THEN /\ munmap_rebind_inflight' = TRUE
                    /\ wop' = Head(pending)
                    /\ pending' = Tail(pending)
                    /\ vma' = x.tab
                    /\ lock' = "worker"
                    /\ wpc' = "exec"
                    /\ wq' = wq
               ELSE /\ munmap_rebind_inflight' =
                           IF seq THEN FALSE ELSE munmap_rebind_inflight
                    /\ vma' = IF seq
                              THEN [x.tab EXCEPT ![v].last_munmap_rebind = FALSE]
                              ELSE x.tab
                    /\ lock' = "free"
                    /\ wpc' = "top"
                    /\ wop' = NoOp
                    /\ UNCHANGED <<pending, wq>>
    /\ UNCHANGED <<pvars, pt_root, flags, size, vmas, ipc, iargs, iret, nioctl, cpc, rpc,
                   ninval, serial>>

AsyncWorkExec ==
    \E fail \in Fails,
       ub \in (IF wop.vma # NoVma /\ ExecHasUB(flags.mode, vma, wop.vma, wop.kind)
               THEN UBOutcomes ELSE {"null"}) :
        async_op_exec(fail, ub)

\* The closed branch: the op is dropped, the VMA of an UNMAP or UNMAP_ALL
\* destroyed under vm->lock, a fence not yet signalled is signalled.
AsyncWorkFlush ==
    /\ wpc = "flush"
    /\ IF wop.kind \in {"UNMAP", "UNMAP_ALL"}
       THEN /\ lock = "free"
            /\ vma' = xe_vma_destroy(vma, wop.vma)
       ELSE vma' = vma
    /\ fences' = SignalFence(fences, wop.fence)
    /\ hist' = [hist EXCEPT !.done = wop.serial, !.failed = 0]
    /\ wpc' = "top"
    /\ wop' = NoOp
    /\ UNCHANGED <<pvars, pt_root, flags, size, vmas, pt, pending, async_error,
                   munmap_rebind_inflight, capture, lock, wq, ipc, iargs,
                   iret, nioctl, cpc, rq, rpc, nfail, ninval, serial>>

\* The page-table update fence an op fence waits on signals:
\* async_op_fence_cb.
UpdateFenceSignal ==
    \E f \in 1 .. Len(fences) :
        /\ fences[f].upd = "pending"
        /\ fences' = [fences EXCEPT ![f].upd = "signaled",
                                    ![f].signaled = TRUE]
        /\ UNCHANGED <<pvars, pt_root, flags, size, vma, vmas, pt, pending, async_error,
                       munmap_rebind_inflight, capture, lock, wq, wpc, wop,
                       ipc, iargs, iret, nioctl, cpc, rq, rpc, nfail, ninval,
                       serial, hist>>


(* ------------------ xe_vm_destroy_ioctl, close and put ---------------- *)
\* xe_vm_destroy_ioctl erases the handle and calls xe_vm_close_and_put:
\* vm->size = 0 with no lock held, then queue_work of flush_async_ops ...
CloseSetSize ==
    /\ cpc = "open"
    /\ size' = 0
    /\ wq' = [wq EXCEPT !.queued = TRUE]
    /\ cpc' = "flush_async"
    /\ UNCHANGED <<pvars, pt_root, flags, vma, vmas, pt, pending, async_error,
                   munmap_rebind_inflight, capture, fences, lock, wpc,
                   wop, ipc, iargs, iret, nioctl, rq, rpc, nfail, ninval,
                   serial, hist>>

\* ... and flush_work returns once the work item is idle.
CloseFlushAsync ==
    /\ cpc = "flush_async"
    /\ ~wq.queued
    /\ ~wq.running
    /\ cpc' = IF flags.mode = "compute" THEN "flush_rebind" ELSE "teardown"
    /\ UNCHANGED <<pvars, pt_root, flags, size, vma, vmas, pt, pending, async_error,
                   munmap_rebind_inflight, capture, fences, lock, wq, wpc,
                   wop, ipc, iargs, iret, nioctl, rq, rpc, nfail, ninval,
                   serial, hist>>

\* flush_work(&vm->preempt.rebind_work) on a compute-mode VM.
CloseFlushRebind ==
    /\ cpc = "flush_rebind"
    /\ ~rq.queued
    /\ ~rq.running
    /\ cpc' = "teardown"
    /\ UNCHANGED <<pvars, pt_root, flags, size, vma, vmas, pt, pending, async_error,
                   munmap_rebind_inflight, capture, fences, lock, wq, wpc,
                   wop, ipc, iargs, iret, nioctl, rq, rpc, nfail, ninval,
                   serial, hist>>

RECURSIVE DestroyAll(_, _)
DestroyAll(tab, S) ==
    IF S = {} THEN tab
    ELSE LET i == CHOOSE j \in S : TRUE
         IN DestroyAll(xe_vma_destroy(tab, i), S \ {i})

\* Under vm->lock every VMA left in the index is erased and destroyed.
CloseTeardown ==
    /\ cpc = "teardown"
    /\ lock = "free"
    /\ vma' = DestroyAll(vma, vmas)
    /\ vmas' = {}
    /\ cpc' = "done"
    /\ UNCHANGED <<pvars, pt_root, flags, size, pt, pending, async_error,
                   munmap_rebind_inflight, capture, fences, lock, wq, wpc,
                   wop, ipc, iargs, iret, nioctl, rq, rpc, nfail, ninval,
                   serial, hist>>

\* vma_destroy_work_func: takes vm->lock to unlink the VMA, then frees it.
VmaDestroyWork ==
    \E v \in 1 .. Len(vma) :
        /\ vma[v].destroy_work
        /\ ~vma[v].freed
        /\ lock = "free"
        /\ vma' = [vma EXCEPT ![v].freed = TRUE, ![v].destroy_work = FALSE]
        /\ UNCHANGED <<pvars, pt_root, flags, size, vmas, pt, pending, async_error,
                       munmap_rebind_inflight, capture, fences, lock, wq,
                       wpc, wop, ipc, iargs, iret, nioctl, cpc, rq, rpc,
                       nfail, ninval, serial, hist>>

(* ----------------- userptr invalidation and the rebind worker --------- *)
\* vm->userptr.list
UserptrList(tab) == {i \in 1 .. Len(tab) : tab[i].bo = 0 /\ ~tab[i].freed}

\* vma_userptr_invalidate: the notifier sequence moves; a live VMA that
\* went through its initial bind is zapped (fault mode) or left to the
\* rebind worker (compute mode).  On a VM in neither mode the notifier
\* only waits for fences, and nothing here reads the sequence again.
UserptrInvalidate ==
    \E v \in UserptrList(vma) :
        /\ flags.mode # "none"
        /\ ninval < MaxInval
        /\ ninval' = ninval + 1
        /\ vma' = [vma EXCEPT ![v].stale = TRUE]
        /\ LET live == ~vma[v].destroyed /\ vma[v].initial_bind IN
           /\ pt' = IF live /\ flags.mode = "fault" /\ vma[v].gt_present
                    THEN PtClear(pt, vma[v]) ELSE pt
           /\ rq' = IF live /\ flags.mode = "compute"
                    THEN [rq EXCEPT !.queued = TRUE] ELSE rq
        /\ UNCHANGED <<pvars, pt_root, flags, size, vmas, pending, async_error,
                       munmap_rebind_inflight, capture, fences, lock, wq,
                       wpc, wop, ipc, iargs, iret, nioctl, cpc, rpc, nfail,
                       serial, hist>>

\* The workqueue starts preempt_rebind_work_func, or the function is back
\* at its label retry, straight away or once
\* flush_work(&vm->async_ops.work) has returned: the closed check.
RebindWorkRetry ==
    /\ \/ rpc = "retry"
       \/ rpc = "flush" /\ ~wq.queued /\ ~wq.running
       \/ rpc = "idle" /\ rq.queued /\ ~rq.running
    /\ IF xe_vm_is_closed(size)
       THEN /\ rpc' = "idle"
            /\ rq' = [queued |-> rq.queued /\ rpc # "idle",
                      running |-> FALSE]
       ELSE /\ rpc' = "lock"
            /\ rq' = [queued |-> rq.queued /\ rpc # "idle",
                      running |-> TRUE]
    /\ UNCHANGED <<pvars, pt_root, flags, size, vma, vmas, pt, pending, async_error,
                   munmap_rebind_inflight, capture, fences, lock, wq, wpc,
                   wop, ipc, iargs, iret, nioctl, cpc, nfail, ninval, serial,
                   hist>>

RECURSIVE xe_vm_rebind(_, _, _, _)
\* xe_vm_userptr_pin and xe_vm_rebind of the rebind worker over
\* vm->userptr.list from VMA i on: r = [tab, pt, kick].
xe_vm_rebind(r, i, n, mode) ==
    IF i > n THEN r
    ELSE IF i \notin UserptrList(r.tab) THEN xe_vm_rebind(r, i + 1, n, mode)
    ELSE LET v == xe_vma_userptr_pin_pages(r.tab[i])
             tab1 == [r.tab EXCEPT ![i] = v]
             x == xe_vm_bind(mode, tab1, r.pt, <<>>, i, NoFence)
         IN IF v.dirty /\ v.initial_bind
            THEN xe_vm_rebind([tab |-> x.tab, pt |-> x.pt,
                               kick |-> r.kick \/ x.kick], i + 1, n, mode)
            ELSE xe_vm_rebind([r EXCEPT !.tab = tab1], i + 1, n, mode)

\* preempt_rebind_work_func between down_read and up_read of vm->lock.
RebindWorkLocked ==
    /\ rpc = "lock"
    /\ lock = "free"
    /\ IF async_error # 0
       THEN /\ rpc' = "idle"
            /\ rq' = [rq EXCEPT !.running = FALSE]
            /\ UNCHANGED <<vma, pt>>
       ELSE IF munmap_rebind_inflight
       THEN /\ rpc' = "flush"
            /\ UNCHANGED <<vma, pt, rq>>
       ELSE LET r == xe_vm_rebind([tab |-> vma, pt |-> pt, kick |-> FALSE],
                                  1, Len(vma), flags.mode)
            IN /\ vma' = r.tab
               /\ pt' = r.pt
               /\ rpc' = "idle"
               /\ rq' = [queued |-> rq.queued \/ r.kick, running |-> FALSE]
    /\ UNCHANGED <<pvars, pt_root, flags, size, vmas, pending, async_error,
                   munmap_rebind_inflight, capture, fences, lock, wq, wpc,
                   wop, ipc, iargs, iret, nioctl, cpc, nfail, ninval, serial,
                   hist>>

(* ------------------------------ the system ---------------------------- *)
Next ==
    \/ IoctlBegin
    \/ xe_vm_bind_ioctl_restart
    \/ IoctlCommit
    \/ AsyncWorkStart
    \/ AsyncWorkTop
    \/ AsyncWorkExec
    \/ AsyncWorkFlush
    \/ UpdateFenceSignal
    \/ CloseSetSize
    \/ CloseFlushAsync
    \/ CloseFlushRebind
    \/ CloseTeardown
    \/ VmaDestroyWork
    \/ UserptrInvalidate
    \/ RebindWorkRetry
    \/ RebindWorkLocked

Spec == Init /\ [][Next]_vmvars


(* ------------------------------ properties ---------------------------- *)
Disjoint(a, b) == a.end < b.start \/ b.end < a.start

\* C1: after any sequence of accepted bind ioctls, no two VMAs of the VM's
\* index have intersecting [start, end] ranges.
C1_NoOverlap ==
    (ipc = "idle" /\ iret = 0) =>
        \A i, j \in vmas : i # j => Disjoint(vma[i], vma[j])

\* C2: a MAP or MAP_USERPTR whose range intersects a VMA of the index is
\* turned away with -EBUSY, and the index, the page tables and the async
\* queue are left as they were before the ioctl.
C2_MapOverVmaRejected ==
    [][(ipc = "commit" /\ ipc' # "commit" /\ hist'.busy) =>
          /\ ipc' = "idle"
          /\ iret' = 0 - EBUSY
          /\ UNCHANGED <<vma, vmas, pt, pending>>]_vmvars

\* C3: the one worker takes the queued operations one at a time in the
\* order of their enqueueing: the operation it starts is the one enqueued
\* right after the last operation that completed.
C3_InOrder ==
    [][(wop' # wop /\ wop' # NoOp) => wop'.serial = hist'.done + 1]_vmvars

\* Two operations were enqueued and the worker executed both on the open VM.
C3_Witness == hist.done = 2 /\ size # 0 /\ wpc = "idle"

\* C4 as stated: after a failure the worker still takes every operation
\* queued behind the failed one off the queue: once it rests in the error
\* state of an open VM, at most the failed operation is left in the queue.
C4_BehindRemoved ==
    (async_error # 0 /\ size # 0 /\ wpc = "idle" /\ ~wq.queued) =>
        Len(pending) <= 1

\* C4 amended: while an open VM is in the error state the worker holds no
\* operation, the failed operation is the head of the queue, and the queue
\* only grows at its tail: the operations behind the failed one stay
\* queued, neither executed nor flushed.
C4_BehindParked ==
    [][(async_error' # 0 /\ size' # 0) =>
          /\ wop' = NoOp
          /\ pending' # <<>>
          /\ pending'[1].serial = hist'.failed
          /\ async_error # 0 =>
                /\ Len(pending') >= Len(pending)
                /\ SubSeq(pending', 1, Len(pending)) = pending]_vmvars

\* An open VM rests in the error state with an operation parked behind the
\* failed one.
C4_Witness ==
    /\ async_error # 0 /\ size # 0 /\ wpc = "idle" /\ ~wq.queued
    /\ Len(pending) >= 2
    /\ pending[1].serial = hist.failed

\* C5: RESTART goes through only on a VM with async bind ops in the error
\* state, an ioctl the checks turn away changes nothing, an accepted
\* RESTART clears the error and queues the worker, and the worker then
\* takes the failed operation first, the others behind it in the order of
\* their enqueueing.
C5_Restart ==
    [][/\ ipc' = "restart" => (flags.async /\ async_error' # 0)
       /\ (ipc = "restart" /\ ipc' = "idle") =>
             (async_error # 0 /\ async_error' = 0 /\ wq'.queued)
       /\ (ipc = "idle" /\ ipc' = "idle" /\ nioctl' # nioctl) =>
             UNCHANGED <<pvars, pt_root, flags, size, vma, vmas, pt, pending, async_error,
                         munmap_rebind_inflight, capture, fences, lock, wq,
                         wpc, wop, rq, rpc>>
       /\ (wop' # wop /\ wop' # NoOp /\ hist.failed # 0) =>
             /\ wop'.serial = hist.failed
             /\ \A n \in 1 .. Len(pending') :
                   pending'[n].serial = wop'.serial + n]_vmvars

\* A failure was captured, a RESTART cleared the error, and the worker
\* executed the failed operation and the one behind it on the open VM.
C5_Witness ==
    /\ capture.error # 0 /\ async_error = 0 /\ size # 0
    /\ hist.done = 2 /\ hist.failed = 0 /\ wpc = "idle"

\* C6 as stated: when an async operation fails, its op-done fence is
\* signalled, and a VM with an error-capture address gets the record.
C6_FenceSignalledOnFailure ==
    [][(async_error = 0 /\ async_error' # 0) =>
          /\ pending'[1].fence # NoFence =>
                fences'[pending'[1].fence].signaled
          /\ flags.capture => capture'.error = async_error']_vmvars

\* C6 amended: when an async operation fails, no op-done fence is touched
\* and the operation goes back to the head of the queue; a VM with an
\* error-capture address gets the record of the operation's kind, address,
\* size and error code.
C6_FailureParked ==
    [][(async_error = 0 /\ async_error' # 0) =>
          /\ fences' = fences
          /\ pending' # <<>>
          /\ pending'[1].serial = wop.serial
          /\ capture' = IF flags.capture
                        THEN [error |-> async_error', op |-> wop.kind,
                              addr |-> wop.addr, size |-> wop.range]
                        ELSE capture]_vmvars

\* An operation with a signalling sync failed on a VM with an error-capture
\* address: the record is written and the fence is not signalled.
C6_Witness ==
    /\ async_error # 0 /\ capture.error = async_error
    /\ pending # <<>> /\ pending[1].fence # NoFence
    /\ fences[pending[1].fence].installed
    /\ ~fences[pending[1].fence].signaled

\* C7: the op-done fence of an operation enqueued with a signalling sync is
\* not signalled before the fence of the update the operation performed,
\* and it is signalled in the end: once the VM is
\* closed and torn down, with no operation left and no update fence
\* outstanding, every op-done fence has signalled.
C7_FenceSignalled ==
    \A f \in {g \in 1 .. Len(fences) : fences[g].installed} :
        /\ (fences[f].signaled /\ fences[f].upd # "none") =>
               fences[f].upd = "signaled"
        /\ (cpc = "done" /\ pending = <<>> /\ wop = NoOp
                /\ fences[f].upd # "pending") =>
               fences[f].signaled

\* C8: the closed flag stays set, and once it is set no bind or unbind
\* begins: but for a userptr invalidation, nothing writes the page tables
\* of a closed VM.
C8_ClosedForGood ==
    [][size = 0 =>
          /\ size' = 0
          /\ ninval' = ninval => pt' = pt]_vmvars

\* C9: xe_vm_close_and_put has emptied the async queue, and the rebind
\* worker is at rest, when it destroys the VMAs.
C9_QueueEmptied ==
    [][(cpc = "teardown" /\ cpc' = "done") =>
          /\ pending = <<>>
          /\ wop = NoOp
          /\ ~rq.running]_vmvars



\* The step is the part under vm->lock of an ioctl on the open VM with the
\* one operation UNMAP of [a, a + range - 1], no allocation failing.
UnmapStep(a, range, async) ==
    /\ ipc = "commit"
    /\ lock = "free"
    /\ size # 0
    /\ \E sy \in SyncInputs, k \in 1 .. NumPages, ub \in UBOutcomes :
          xe_vm_bind_ioctl_locked(
              <<bind_op("UNMAP", async, FALSE, a, range, 0, 0)>>,
              sy, k, FALSE, ub)

\* C14: an UNMAP of a range none of whose addresses is translated (never
\* bound, or unbound before) returns 0 and leaves the page tables as they
\* were.
C14_UnbindEmptyNoop ==
    [][\A ar \in AddrRanges, async \in BOOLEAN :
          (/\ \A p \in ar[1] .. ar[1] + ar[2] - 1 : pt[p] = Empty
           /\ UnmapStep(ar[1], ar[2], async)) =>
          (iret' = 0 /\ pt' = pt)]_vmvars

(* ------------------------- munmap-style splits ----------------------- *)
\* Async binds and unbinds on a VM of SplitPages pages whose binds write
\* the page tables at once (no fault mode), with the async worker: the
\* runs in which an UNMAP falls strictly inside a VMA.
SplitFlagSets == {f \in VmFlagSets : f.async /\ f.mode # "fault"}

SplitRanges ==
    {ar \in (0 .. SplitPages - 1) \X (1 .. SplitPages) :
        ar[1] + ar[2] <= SplitPages}

\* MAP of the buffer object from offset 0 or 1, MAP_USERPTR, UNMAP.
SplitInputs ==
    {<<bind_op("MAP", TRUE, FALSE, ar[1], ar[2], 1, off)>> :
        ar \in SplitRanges, off \in {0, 1}}
    \cup {<<bind_op("MAP_USERPTR", TRUE, FALSE, ar[1], ar[2], 0, 0)>> :
            ar \in SplitRanges}
    \cup {<<bind_op("UNMAP", TRUE, FALSE, ar[1], ar[2], 0, 0)>> :
            ar \in SplitRanges}

InitSplit ==
    /\ pt_root = xe_pt_create(PtRootLevel)
    /\ PreemptNone
    /\ flags \in SplitFlagSets
    /\ size = SplitPages
    /\ vma = <<>>
    /\ vmas = {}
    /\ pt = [p \in 0 .. SplitPages - 1 |-> Empty]
    /\ pending = <<>>
    /\ async_error = 0
    /\ munmap_rebind_inflight = FALSE
    /\ capture = NoCapture
    /\ fences = <<>>
    /\ lock = "free"
    /\ wq = Idle
    /\ wpc = "idle"
    /\ wop = NoOp
    /\ ipc = "idle"
    /\ iargs = NoArgs
    /\ iret = 0
    /\ nioctl = 0
    /\ cpc = "open"
    /\ rq = Idle
    /\ rpc = "idle"
    /\ nfail = 0
    /\ ninval = 0
    /\ serial = 0
    /\ hist = [done |-> 0, failed |-> 0, busy |-> FALSE]

IoctlBeginSplit ==
    /\ ipc = "idle"
    /\ nioctl < MaxIoctls
    /\ \E ops \in SplitInputs, sy \in SyncInputs :
          xe_vm_bind_ioctl_begin(
              xe_vm_bind_ioctl_checks(ops, sy, TRUE, size, async_error))

IoctlCommitSplit ==
    /\ ipc = "commit"
    /\ lock = "free"
    /\ \E ops \in SplitInputs :
          \E sy \in SyncInputs, k \in 1 .. SplitPages, ub \in UBOutcomes :
              xe_vm_bind_ioctl_locked(ops, sy, k, FALSE, ub)

NextSplit ==
    \/ IoctlBeginSplit
    \/ IoctlCommitSplit
    \/ AsyncWorkStart
    \/ AsyncWorkTop
    \/ AsyncWorkExec
    \/ UpdateFenceSignal
    \/ VmaDestroyWork

SpecSplit == InitSplit /\ [][NextSplit]_vmvars

\* The step is the part under vm->lock of an ioctl with the one operation
\* UNMAP | ASYNC of [a, b].
SplitUnmapStep(a, b) ==
    /\ ipc = "commit"
    /\ lock = "free"
    /\ \E sy \in SyncInputs, k \in 1 .. SplitPages, ub \in UBOutcomes :
          xe_vm_bind_ioctl_locked(
              <<bind_op("UNMAP", TRUE, FALSE, a, b + 1 - a, 0, 0)>>,
              sy, k, FALSE, ub)

\* VMA d was split into the VMAs j and j + 1 of the index.
SplitOf(d, j) ==
    /\ vma[d].destroyed /\ vma[d].first_munmap_rebind
    /\ d < j /\ j \in vmas /\ j + 1 \in vmas
    /\ vma[j].start = vma[d].start
    /\ vma[j + 1].end = vma[d].end
    /\ vma[j].end + 1 < vma[j + 1].start

\* Every operation enqueued has executed and the worker is idle.
SplitQuiet ==
    /\ pending = <<>> /\ wop = NoOp /\ wpc = "idle" /\ ~wq.queued
    /\ async_error = 0 /\ ipc = "idle" /\ hist.done = serial

PtRanges ==
    {r \in (0 .. PtSize - 1) \X (0 .. PtSize - 1) : r[1] <= r[2]}
    \ {<<0, PtSize - 1>>}

\* What the VMAs map: the userptr, the buffer object in VRAM from its
\* offset 0 or 1, the buffer object in system memory.
PtBos == {<<0, 0>>, <<1, 0>>, <<1, 1>>, <<2, 0>>}

InitPT ==
    /\ pt_root = xe_pt_create(PtRootLevel)
    /\ PreemptNone
    /\ flags = [async |-> FALSE, mode |-> "none", capture |-> FALSE]
    /\ size = PtSize
    /\ vma = <<>>
    /\ vmas = {}
    /\ pt = [p \in Pages |-> Empty]
    /\ pending = <<>>
    /\ async_error = 0
    /\ munmap_rebind_inflight = FALSE
    /\ capture = NoCapture
    /\ fences = <<>>
    /\ lock = "free"
    /\ wq = Idle
    /\ wpc = "idle"
    /\ wop = NoOp
    /\ ipc = "idle"
    /\ iargs = NoArgs
    /\ iret = 0
    /\ nioctl = 0
    /\ cpc = "open"
    /\ rq = Idle
    /\ rpc = "idle"
    /\ nfail = 0
    /\ ninval = 0
    /\ serial = 0
    /\ hist = [done |-> 0, failed |-> 0, busy |-> FALSE,
               bound |-> NoVma, nodes |-> 0, trip |-> FALSE,
               leaked |-> 0, oops |-> FALSE]

\* What the page-table actions leave alone.
ptrest == <<pvars, flags, size, pt, pending, async_error, munmap_rebind_inflight,
            capture, fences, lock, wq, wpc, wop, ipc, iargs, iret, nioctl,
            cpc, rq, rpc, nfail, ninval, serial>>

RECURSIVE PtCount(_), PtCountFrom(_, _)
\* The nodes allocated under an entry, the node itself included.
PtCount(node) ==
    IF node.kind # "pt" THEN 0 ELSE 1 + PtCountFrom(node, 1)
PtCountFrom(node, i) ==
    IF i > PtEntries THEN 0
    ELSE PtCount(node.slots[i]) + PtCountFrom(node, i + 1)

\* A MAP of a free range: xe_vma_create, then the first bind of the VMA
\* (__xe_vm_bind_vma with rebind false).
PtMapBind ==
    /\ Len(vma) < MaxPtVmas
    /\ \E r \in PtRanges, bo \in PtBos :
         /\ ~xe_vma_create_bug(r[1], r[2], size)
         /\ \A i \in vmas : vma[i].end < r[1] \/ r[2] < vma[i].start
         /\ vma' = Append(vma, [xe_vma_create(bo[1], bo[2], r[1], r[2])
                                  EXCEPT !.gt_present = TRUE])
         /\ vmas' = xe_vm_insert_vma(vmas, Len(vma) + 1)
         /\ pt_root' = xe_pt_bind(xe_vma_create(bo[1], bo[2], r[1], r[2]),
                                  pt_root, r[1], r[2] + 1, FALSE)
         /\ hist' = [hist EXCEPT !.bound = Len(vma) + 1,
                                 !.nodes = PtCount(pt_root),
                                 !.trip = FALSE]
    /\ UNCHANGED ptrest

\* xe_vm_rebind of a VMA that is bound (__xe_vm_bind_vma with rebind true).
PtRebind ==
    /\ \E i \in vmas :
         /\ vma[i].gt_present
         /\ pt_root' = xe_pt_bind(vma[i], pt_root, vma[i].start,
                                  vma[i].end + 1, TRUE)
    /\ hist' = [hist EXCEPT !.trip = FALSE]
    /\ UNCHANGED <<vma, vmas>>
    /\ UNCHANGED ptrest

\* An UNMAP of a whole VMA: __xe_vm_unbind_vma, then the VMA leaves the
\* index.
PtUnbind ==
    /\ \E i \in vmas :
         /\ vma[i].gt_present
         /\ pt_root' = xe_pt_unbind(pt_root, vma[i].start, vma[i].end + 1,
                                    TRUE).node
         /\ vma' = [vma EXCEPT ![i].gt_present = FALSE,
                               ![i].destroyed = TRUE]
         /\ vmas' = xe_vm_remove_vma(vmas, i)
         /\ hist' = [hist EXCEPT !.bound = NoVma,
                                 !.nodes = IF i = hist.bound THEN @ ELSE 0,
                                 !.trip = (i = hist.bound)]
    /\ UNCHANGED ptrest

NextPT ==
    \/ PtMapBind
    \/ PtRebind
    \/ PtUnbind

SpecPT == InitPT /\ [][NextPT]_vmvars

RECURSIVE PtNodes(_)
\* The nodes of the tree under a node, itself included.
PtNodes(node) ==
    {node} \cup UNION {PtNodes(node.slots[i]) :
                         i \in {j \in 1 .. PtEntries :
                                  node.slots[j].kind = "pt"}}

\* The entries of a node that hold a PTE or a child.
PtPopulated(node) ==
    Cardinality({i \in 1 .. PtEntries : node.slots[i].kind # "empty"})

RECURSIVE PtTranslate(_, _)
\* The walk of the tree for an address: the PTE it ends at with the level
\* of the node holding it, or PtEmpty.
PtTranslate(node, addr) ==
    LET e == node.slots[xe_pt_idx(addr, node.level) + 1]
    IN IF e.kind = "pt" THEN PtTranslate(e, addr)
       ELSE IF e.kind = "pte"
       THEN [kind |-> "pte", level |-> node.level, bo |-> e.bo,
             page |-> e.page]
       ELSE PtEmpty

\* The tree a fresh VM has after the bind of this VMA alone.
PtAlone(v) ==
    xe_pt_bind(v, xe_pt_create(PtRootLevel), v.start, v.end + 1, FALSE)

\* The range of the VMA is exactly one entry of a node of this level.
PtCoversEntry(v, level) ==
    /\ v.start % xe_pt_span(level) = 0
    /\ v.end + 1 = v.start + xe_pt_span(level)

\* Every address of the VMA is translated by an entry of a node of this
\* level: at level 0 by the PTEs of leaves, above by a huge entry with no
\* node under it.
PtFoldedAt(v, level) ==
    \A a \in v.start .. v.end :
        /\ PtTranslate(pt_root, a).kind = "pte"
        /\ PtTranslate(pt_root, a).level = level

\* C15 as stated: a bound VMA that covers exactly one entry of a level-1
\* or level-2 directory and maps a buffer object from an offset aligned to
\* the entry's size is translated by that one entry with no node under it;
\* a userptr VMA is translated by leaf PTEs only.
C15_Folds ==
    \A i \in vmas :
        /\ \A level \in {1, 2} :
              (/\ PtCoversEntry(vma[i], level)
               /\ vma[i].bo # 0
               /\ vma[i].off % xe_pt_span(level) = 0) =>
              PtFoldedAt(vma[i], level)
        /\ vma[i].bo = 0 => PtFoldedAt(vma[i], 0)

\* C15 as the code has it: the entry is folded when the buffer object is
\* placed in VRAM; a VMA of a userptr or of a buffer object in system
\* memory is translated by leaf PTEs only.
C15_FoldsVram ==
    \A i \in vmas :
        /\ \A level \in {1, 2} :
              (/\ PtCoversEntry(vma[i], level)
               /\ mem_type_is_vram(vma[i].bo)
               /\ vma[i].off % xe_pt_span(level) = 0) =>
              PtFoldedAt(vma[i], level)
        /\ ~mem_type_is_vram(vma[i].bo) => PtFoldedAt(vma[i], 0)

\* A VMA of the VRAM object and a userptr VMA are bound, each over one
\* level-2 entry: the first is one huge entry, the second is leaves.
C15_Witness ==
    \E i, j \in vmas :
        /\ mem_type_is_vram(vma[i].bo) /\ vma[i].off = 0
        /\ PtCoversEntry(vma[i], 2) /\ PtFoldedAt(vma[i], 2)
        /\ vma[j].bo = 0
        /\ PtCoversEntry(vma[j], 2) /\ PtFoldedAt(vma[j], 0)

\* C12: whatever else was bound and unbound in the VM, every address of a
\* bound VMA translates as it does after the bind of that VMA alone on a
\* fresh VM: the unbind of a disjoint range changes none of its entries.
C12_Frame ==
    \A i \in vmas : \A a \in vma[i].start .. vma[i].end :
        PtTranslate(pt_root, a) = PtTranslate(PtAlone(vma[i]), a)

\* The last step unbound a VMA bound before a VMA that is still bound, the
\* two meeting in one leaf.
C12_Witness ==
    /\ hist.bound = NoVma /\ ~hist.trip
    /\ \E k \in 1 .. Len(vma), j \in vmas :
          /\ vma[k].destroyed
          /\ k < j
          /\ \E a \in vma[k].start .. vma[k].end,
                b \in vma[j].start .. vma[j].end :
                a \div PtEntries = b \div PtEntries

C10_NumLive == \A n \in PtNodes(pt_root) : n.num_live = PtPopulated(n)

(* ------------- preempt fences and the rebind worker, by step ---------- *)
\* A compute-mode VM with its compute engines and their preempt fences,
\* one external object, userptr VMAs of one page each, the mmu notifier
\* and preempt_rebind_work_func from one blocking point to the next.
\* userptr[v] counts the generations of the CPU pages behind VMA v: gen
\* the pages now in the process, pin those of the last pin (dma_address),
\* pte those whose addresses the page tables hold.
NoPte == 0 - 1

PreemptFence(e, seqno) ==
    [e |-> e, seqno |-> seqno, armed |-> FALSE, signaled |-> FALSE,
     vm_resv |-> FALSE, ext_resv |-> FALSE]

xe_preempt_fence_create(fs, e, seqno) == Append(fs, PreemptFence(e, seqno))

preempt_fences_waiting(es, fs) ==
    \E i \in 1 .. Len(es) :
        es[i].pfence = NoFence \/ fs[es[i].pfence].armed

\* dma_resv_add_fence(&vm->resv, pfence, DMA_RESV_USAGE_PREEMPT_FENCE): the
\* fence takes the slot of the earlier fence of its context.
resv_add_vm(fs, f) ==
    [g \in DOMAIN fs |->
        IF g = f THEN [fs[g] EXCEPT !.vm_resv = TRUE]
        ELSE IF fs[g].e = fs[f].e THEN [fs[g] EXCEPT !.vm_resv = FALSE]
        ELSE fs[g]]

\* The same on the one external object with no fence installed.
resv_add_ext_none(fs, f) == fs

\* The same on the one external object of vm->extobj.bos.
resv_add_ext(fs, f) ==
    [g \in DOMAIN fs |->
        IF g = f THEN [fs[g] EXCEPT !.ext_resv = TRUE]
        ELSE IF fs[g].e = fs[f].e THEN [fs[g] EXCEPT !.ext_resv = FALSE]
        ELSE fs[g]]

\* The walk that enables signaling on no fence.
enable_signaling_none(fs) == fs

\* dma_resv_for_each_fence_unlocked over vm->resv with
\* dma_fence_enable_sw_signaling: the walk passes over signalled fences.
enable_signaling_resv(fs) ==
    [g \in DOMAIN fs |->
        IF fs[g].vm_resv /\ ~fs[g].signaled
        THEN [fs[g] EXCEPT !.armed = TRUE] ELSE fs[g]]

\* dma_resv_wait_timeout(&vm->resv, DMA_RESV_USAGE_PREEMPT_FENCE) returns.
resv_signaled(fs) == \A g \in DOMAIN fs : fs[g].vm_resv => fs[g].signaled

\* A dma_fence_wait that returns at once.
dma_fence_wait_skip(fs, f) == TRUE

\* dma_fence_wait(e->compute.pfence) of alloc_preempt_fences returns; with
\* no fence there is no wait.
dma_fence_wait_done(fs, f) == f = NoFence \/ fs[f].signaled

\* Position in vm->preempt.engines (list_add puts the newest first) of the
\* engine with this id.
EngineIdx(es, id) == Len(es) + 1 - id

\* xe_vm_userptr_pin: xe_vma_userptr_pin_pages along vm->userptr.list.
xe_vm_userptr_pin(tab) ==
    [i \in DOMAIN tab |->
        IF i \in UserptrList(tab) THEN xe_vma_userptr_pin_pages(tab[i])
        ELSE tab[i]]

\* The pages a pin of xe_vm_userptr_pin gets are those now in the process.
userptr_pinned(tab, up) ==
    [i \in DOMAIN up |->
        IF i \in UserptrList(tab) /\ tab[i].stale /\ ~tab[i].destroyed
        THEN [up[i] EXCEPT !.pin = up[i].gen] ELSE up[i]]

\* A check that finds no notifier sequence moved.
xe_vm_userptr_needs_repin_never(tab) == FALSE

\* xe_vm_userptr_needs_repin: -EAGAIN when the notifier sequence of a VMA
\* of vm->userptr.list moved since its pin.
xe_vm_userptr_needs_repin(tab) == \E v \in UserptrList(tab) : tab[v].stale

\* The VMAs xe_vm_rebind binds again.
RebindSet(tab) ==
    {v \in UserptrList(tab) : tab[v].dirty /\ tab[v].initial_bind}

\* xe_vm_rebind of the rebind worker over vm->userptr.list: the VMA
\* records after xe_vm_bind_vma of each dirty VMA.
xe_vm_rebind_list(tab) ==
    [i \in DOMAIN tab |->
        IF i \in RebindSet(tab)
        THEN [tab[i] EXCEPT !.dirty = FALSE, !.gt_present = TRUE]
        ELSE tab[i]]

\* The PTEs xe_vm_bind_vma writes encode the addresses of the last pin.
userptr_bound(up, S) ==
    [i \in DOMAIN up |->
        IF i \in S THEN [up[i] EXCEPT !.pte = up[i].pin] ELSE up[i]]

\* What none of these steps writes.
prest == <<xvars, pt_root, flags, pending, async_error, munmap_rebind_inflight,
           capture, fences, wq, wpc, wop, ipc, iargs, iret, nioctl, serial>>

InitPreempt ==
    /\ pt_root = xe_pt_create(PtRootLevel)
    /\ PreemptNone
    /\ flags = [async |-> TRUE, mode |-> "compute", capture |-> FALSE]
    /\ size = VmSize
    /\ vma = <<>>
    /\ vmas = {}
    /\ pt = [p \in Pages |-> Empty]
    /\ pending = <<>>
    /\ async_error = 0
    /\ munmap_rebind_inflight = FALSE
    /\ capture = NoCapture
    /\ fences = <<>>
    /\ lock = "free"
    /\ wq = Idle
    /\ wpc = "idle"
    /\ wop = NoOp
    /\ ipc = "idle"
    /\ iargs = NoArgs
    /\ iret = 0
    /\ nioctl = 0
    /\ cpc = "open"
    /\ rq = Idle
    /\ rpc = "idle"
    /\ nfail = 0
    /\ ninval = 0
    /\ serial = 0
    /\ hist = [done |-> 0, failed |-> 0, busy |-> FALSE, raced |-> FALSE]

\* Whether an allocation on the way may fail in this run.
PreemptFails == IF nfail < MaxFail THEN BOOLEAN ELSE {FALSE}

\* xe_vm_add_compute_engine, called by the engine create ioctl with the
\* VM looked up by its handle.  The first kmalloc failing leads to
\* ttm_eu_backoff_reservation on a list never initialised: the thread
\* dies with vm->lock held, or walks on and returns -ENOMEM.
xe_vm_add_compute_engine ==
    /\ Len(engines) < NumEngines
    /\ lock = "free"
    /\ cpc = "open"
    /\ \E fail \in PreemptFails, site \in {"kmalloc", "pfence"},
          ub \in {"oops", "err"} :
         IF fail
         THEN /\ nfail' = nfail + 1
              /\ lock' = IF site = "kmalloc" /\ ub = "oops" THEN "dead"
                         ELSE lock
              /\ UNCHANGED <<engines, pfences>>
         ELSE LET id == Len(engines) + 1
                  f == Len(pfences) + 1
                  es == <<[id |-> id, pfence |-> f, seqno |-> 1,
                           ctx |-> "running", resume |-> FALSE,
                           prev |-> NoFence]>> \o engines
                  fs == resv_add_ext(
                            resv_add_vm(
                                xe_preempt_fence_create(pfences, id, 1), f),
                            f)
              IN /\ engines' = es
                 /\ pfences' = IF preempt_fences_waiting(es, fs)
                               THEN [fs EXCEPT ![f].armed = TRUE] ELSE fs
                 /\ UNCHANGED <<nfail, lock>>
    /\ UNCHANGED <<resume_go, userptr, npc, ri, size, vma, vmas, pt, cpc,
                   rq, rpc, ninval, hist>>
    /\ UNCHANGED prest

\* xe_vm_bind_ioctl with MAP_USERPTR up to the queueing of the bind:
\* xe_vma_create and the first pin of the pages.  The pin waits in
\* mmu_interval_read_begin while a notifier call is under way.
PreemptMapUserptr ==
    /\ Len(vma) < MaxUptr
    /\ lock = "free"
    /\ cpc = "open"
    /\ npc = 0
    /\ vma' = Append(vma, xe_vma_userptr_pin_pages(
                              xe_vma_create(0, 0, Len(vma), Len(vma))))
    /\ vmas' = xe_vm_insert_vma(vmas, Len(vma) + 1)
    /\ userptr' = Append(userptr, [gen |-> 0, pin |-> 0, pte |-> NoPte])
    /\ UNCHANGED <<engines, pfences, resume_go, npc, ri, size, pt, lock,
                   cpc, rq, rpc, nfail, ninval, hist>>
    /\ UNCHANGED prest

\* xe_vm_bind_userptr, the first bind of the VMA: __xe_vm_bind, then the
\* corner case of a pin no longer valid, where the preempt fences of
\* vm->resv are armed.
xe_vm_bind_userptr ==
    /\ lock = "free"
    /\ cpc = "open"
    /\ \E v \in vmas :
         /\ ~vma[v].initial_bind
         /\ ~vma[v].destroyed
         /\ LET x == xe_vm_bind(flags.mode, vma, pt, <<>>, v, NoFence)
            IN /\ vma' = x.tab
               /\ pt' = x.pt
         /\ userptr' = userptr_bound(userptr, {v})
         /\ pfences' = IF vma[v].stale THEN enable_signaling_resv(pfences)
                       ELSE pfences
    /\ UNCHANGED <<engines, resume_go, npc, ri, size, vmas, lock, cpc, rq,
                   rpc, nfail, ninval, hist>>
    /\ UNCHANGED prest

\* vma_userptr_invalidate up to its wait: the sequence of the notifier
\* moves; for a VMA destroyed or not yet bound the call returns, and the
\* pages go; otherwise every preempt fence of vm->resv is armed.
vma_userptr_invalidate_arm ==
    /\ npc = 0
    /\ ninval < MaxNotify
    /\ \E v \in UserptrList(vma) :
         /\ vma' = [vma EXCEPT ![v].stale = TRUE]
         /\ IF vma[v].destroyed \/ ~vma[v].initial_bind
            THEN /\ userptr' = [userptr EXCEPT ![v].gen = @ + 1]
                 /\ UNCHANGED <<pfences, npc>>
            ELSE /\ pfences' = enable_signaling_resv(pfences)
                 /\ npc' = v
                 /\ UNCHANGED userptr
    /\ ninval' = ninval + 1
    /\ UNCHANGED <<engines, resume_go, ri, size, vmas, pt, lock, cpc, rq,
                   rpc, nfail, hist>>
    /\ UNCHANGED prest

\* vma_userptr_invalidate from dma_resv_wait_timeout on: the wait enables
\* signaling on a fence that came into vm->resv meanwhile; once every
\* preempt fence of vm->resv has signalled the rebind worker is queued,
\* the call returns and the pages go.
vma_userptr_invalidate_wait ==
    /\ npc # 0
    /\ IF resv_signaled(pfences)
       THEN /\ rq' = [rq EXCEPT !.queued = TRUE]
            /\ userptr' = [userptr EXCEPT ![npc].gen = @ + 1]
            /\ npc' = 0
            /\ UNCHANGED pfences
       ELSE /\ pfences' = enable_signaling_resv(pfences)
            /\ pfences' # pfences
            /\ UNCHANGED <<rq, userptr, npc>>
    /\ UNCHANGED <<engines, resume_go, ri, size, vma, vmas, pt, lock, cpc,
                   rpc, nfail, ninval, hist>>
    /\ UNCHANGED prest

\* An armed preempt fence: the context is suspended and the fence
\* signals.  The engine takes its messages in order, a resume posted
\* before comes first.  Whether the fence's work also queues
\* vm->preempt.rebind_work is left open: both outcomes are taken.
PreemptFenceSignal ==
    /\ \E f \in DOMAIN pfences :
         /\ pfences[f].armed
         /\ ~pfences[f].signaled
         /\ ~engines[EngineIdx(engines, pfences[f].e)].resume
         /\ pfences' = [pfences EXCEPT ![f].signaled = TRUE]
         /\ engines' = [engines EXCEPT
                          ![EngineIdx(engines, pfences[f].e)].ctx =
                              "suspended"]
    /\ \E q \in BOOLEAN : rq' = [rq EXCEPT !.queued = @ \/ q]
    /\ UNCHANGED <<resume_go, userptr, npc, ri, size, vma, vmas, pt, lock,
                   cpc, rpc, nfail, ninval, hist>>
    /\ UNCHANGED prest

\* The resume posted by e->ops->resume waits on vm->preempt.resume_wq for
\* resume_go: on 1 the context runs again, on -1 it stays suspended.
ContextResume ==
    /\ resume_go # 0
    /\ \E i \in 1 .. Len(engines) :
         /\ engines[i].resume
         /\ engines' = [engines EXCEPT
                          ![i].resume = FALSE,
                          ![i].ctx = IF resume_go = 1 THEN "running" ELSE @]
    /\ UNCHANGED <<pfences, resume_go, userptr, npc, ri, size, vma, vmas,
                   pt, lock, cpc, rq, rpc, nfail, ninval, hist>>
    /\ UNCHANGED prest

\* preempt_rebind_work_func leaves through out_unlock or out_unlock_outer
\* with an error other than -EAGAIN, or through the return of 1 by
\* alloc_preempt_fences.
PreemptWorkExit ==
    /\ rpc' = "idle"
    /\ rq' = [rq EXCEPT !.running = FALSE]
    /\ lock' = "free"

\* preempt_rebind_work_func from down_read(&vm->lock) to the first wait of
\* alloc_preempt_fences: the error and munmap checks, xe_vm_userptr_pin,
\* the reservation, preempt_fences_waiting.
PreemptWorkLock ==
    /\ rpc = "lock"
    /\ lock = "free"
    /\ \/ async_error # 0
       \/ munmap_rebind_inflight
       \/ UserptrList(vma) = {}
       \/ npc = 0
    /\ IF async_error # 0
       THEN /\ PreemptWorkExit
            /\ UNCHANGED <<vma, userptr, ri, nfail>>
       ELSE IF munmap_rebind_inflight
       THEN /\ rpc' = "flush"
            /\ UNCHANGED <<vma, userptr, ri, nfail, rq, lock>>
       ELSE \E fail \in PreemptFails :
              IF fail
              THEN /\ PreemptWorkExit
                   /\ nfail' = nfail + 1
                   /\ UNCHANGED <<vma, userptr, ri>>
              ELSE /\ vma' = xe_vm_userptr_pin(vma)
                   /\ userptr' = userptr_pinned(vma, userptr)
                   /\ UNCHANGED nfail
                   /\ IF preempt_fences_waiting(engines, pfences)
                      THEN /\ rpc' = "alloc"
                           /\ ri' = 1
                           /\ lock' = "rebind"
                           /\ UNCHANGED rq
                      ELSE /\ PreemptWorkExit
                           /\ UNCHANGED ri
    /\ UNCHANGED <<engines, pfences, resume_go, npc, size, vmas, pt, cpc,
                   ninval, hist>>
    /\ UNCHANGED prest

\* One turn of the loop of alloc_preempt_fences: dma_fence_wait enables
\* signaling on the fence of the engine and sleeps until it has signalled;
\* then the fence is put and the next one created, or the creation fails
\* with e->compute.pfence left NULL.
PreemptWorkAlloc ==
    /\ rpc = "alloc"
    /\ LET f == engines[ri].pfence IN
       IF ~dma_fence_wait_done(pfences, f)
       THEN /\ ~pfences[f].armed
            /\ pfences' = [pfences EXCEPT ![f].armed = TRUE]
            /\ UNCHANGED <<engines, ri, rpc, rq, lock, nfail>>
       ELSE \E fail \in PreemptFails :
              IF fail
              THEN /\ engines' = [engines EXCEPT
                                    ![ri].pfence = NoFence,
                                    ![ri].seqno = @ + 1,
                                    ![ri].prev = IF f = NoFence THEN @ ELSE f]
                   /\ nfail' = nfail + 1
                   /\ PreemptWorkExit
                   /\ UNCHANGED <<pfences, ri>>
              ELSE /\ engines' = [engines EXCEPT
                                    ![ri].pfence = Len(pfences) + 1,
                                    ![ri].seqno = @ + 1,
                                    ![ri].prev = IF f = NoFence THEN @ ELSE f]
                   /\ pfences' = xe_preempt_fence_create(
                                     pfences, engines[ri].id,
                                     engines[ri].seqno + 1)
                   /\ IF ri = Len(engines)
                      THEN rpc' = "rebind" /\ UNCHANGED ri
                      ELSE ri' = ri + 1 /\ UNCHANGED rpc
                   /\ UNCHANGED <<rq, lock, nfail>>
    /\ UNCHANGED <<resume_go, userptr, npc, size, vma, vmas, pt, cpc,
                   ninval, hist>>
    /\ UNCHANGED prest

\* resume_go = 0, xe_vm_rebind and the waits for its fence and for the
\* kernel fences of vm->resv; a failing bind ends the worker.
PreemptWorkRebind ==
    /\ rpc = "rebind"
    /\ resume_go' = 0
    /\ \E fail \in PreemptFails :
         IF fail
         THEN /\ nfail' = nfail + 1
              /\ PreemptWorkExit
              /\ UNCHANGED <<vma, userptr, ri>>
         ELSE /\ vma' = xe_vm_rebind_list(vma)
              /\ userptr' = userptr_bound(userptr, RebindSet(vma))
              /\ rpc' = "resume"
              /\ ri' = 1
              /\ UNCHANGED <<nfail, rq, lock>>
    /\ UNCHANGED <<engines, pfences, npc, size, vmas, pt, cpc, ninval,
                   hist>>
    /\ UNCHANGED prest

\* reinstall_preempt_fences, one engine after the other: e->ops->resume,
PreemptWorkResume ==
    /\ rpc = "resume"
    /\ engines' = [engines EXCEPT ![ri].resume = TRUE]
    /\ rpc' = "add_vm"
    /\ UNCHANGED <<pfences, resume_go, userptr, npc, ri, size, vma, vmas,
                   pt, lock, cpc, rq, nfail, ninval, hist>>
    /\ UNCHANGED prest

\* the fence into vm->resv,
PreemptWorkAddVm ==
    /\ rpc = "add_vm"
    /\ pfences' = resv_add_vm(pfences, engines[ri].pfence)
    /\ rpc' = "add_ext"
    /\ UNCHANGED <<engines, resume_go, userptr, npc, ri, size, vma, vmas,
                   pt, lock, cpc, rq, nfail, ninval, hist>>
    /\ UNCHANGED prest

\* the fence into the reservation object of each external object.
PreemptWorkAddExt ==
    /\ rpc = "add_ext"
    /\ pfences' = resv_add_ext(pfences, engines[ri].pfence)
    /\ IF ri = Len(engines)
       THEN rpc' = "check" /\ UNCHANGED ri
       ELSE rpc' = "resume" /\ ri' = ri + 1
    /\ UNCHANGED <<engines, resume_go, userptr, npc, size, vma, vmas, pt,
                   lock, cpc, rq, nfail, ninval, hist>>
    /\ UNCHANGED prest

\* xe_vm_userptr_needs_repin, resume_go, wake_up_all, up_read.
PreemptWorkCheck ==
    /\ rpc = "check"
    /\ lock' = "free"
    /\ IF xe_vm_userptr_needs_repin(vma)
       THEN /\ resume_go' = 0 - 1
            /\ rpc' = "wait_pf"
            /\ hist' = [hist EXCEPT !.raced = TRUE]
            /\ UNCHANGED rq
       ELSE /\ resume_go' = 1
            /\ rpc' = "idle"
            /\ rq' = [rq EXCEPT !.running = FALSE]
            /\ UNCHANGED hist
    /\ UNCHANGED <<engines, pfences, userptr, npc, ri, size, vma, vmas, pt,
                   cpc, nfail, ninval>>
    /\ UNCHANGED prest

\* After -EAGAIN: dma_resv_wait_timeout on the preempt fences of vm->resv
\* enables signaling on them and sleeps until all have signalled, then
\* goto retry.
PreemptWorkWait ==
    /\ rpc = "wait_pf"
    /\ IF resv_signaled(pfences)
       THEN rpc' = "retry" /\ UNCHANGED pfences
       ELSE /\ pfences' = enable_signaling_resv(pfences)
            /\ pfences' # pfences
            /\ UNCHANGED rpc
    /\ UNCHANGED <<engines, resume_go, userptr, npc, ri, size, vma, vmas,
                   pt, lock, cpc, rq, nfail, ninval, hist>>
    /\ UNCHANGED prest

\* xe_vm_destroy_ioctl: refused while the VM has compute engines; else
\* xe_vm_close_and_put sets vm->size = 0 and, the async queue being empty,
\* goes on to flush the rebind worker.
xe_vm_destroy_ioctl ==
    /\ cpc = "open"
    /\ Len(engines) = 0
    /\ size' = 0
    /\ cpc' = "flush_rebind"
    /\ UNCHANGED <<engines, pfences, resume_go, userptr, npc, ri, vma, vmas,
                   pt, lock, rq, rpc, nfail, ninval, hist>>
    /\ UNCHANGED prest

PreemptWork ==
    \/ RebindWorkRetry
    \/ PreemptWorkLock
    \/ PreemptWorkAlloc
    \/ PreemptWorkRebind
    \/ PreemptWorkResume
    \/ PreemptWorkAddVm
    \/ PreemptWorkAddExt
    \/ PreemptWorkCheck
    \/ PreemptWorkWait

NextPreempt ==
    \/ xe_vm_add_compute_engine
    \/ PreemptMapUserptr
    \/ xe_vm_bind_userptr
    \/ vma_userptr_invalidate_arm
    \/ vma_userptr_invalidate_wait
    \/ PreemptFenceSignal
    \/ ContextResume
    \/ RebindWorkRetry
    \/ PreemptWorkLock
    \/ PreemptWorkAlloc
    \/ PreemptWorkRebind
    \/ PreemptWorkResume
    \/ PreemptWorkAddVm
    \/ PreemptWorkAddExt
    \/ PreemptWorkCheck
    \/ PreemptWorkWait
    \/ xe_vm_destroy_ioctl
    \/ CloseFlushRebind
    \/ CloseTeardown
    \/ VmaDestroyWork

SpecPreempt == InitPreempt /\ [][NextPreempt]_vmvars

\* C16: from xe_vm_rebind of the rebind worker to the end of that run, the
\* preempt fence each compute engine of the VM had before (the one
\* alloc_preempt_fences replaced) has signalled.
C16_RebindAfterPreempt ==
    rpc \in {"resume", "add_vm", "add_ext", "check"} =>
        \A i \in 1 .. Len(engines) :
            engines[i].prev # NoFence => pfences[engines[i].prev].signaled

\* The worker has rebound a userptr VMA to pages pinned after an
\* invalidation, on a VM with two engines whose fences it replaced.
C16_Witness ==
    /\ rpc = "resume"
    /\ Len(engines) = NumEngines
    /\ \A i \in 1 .. Len(engines) : engines[i].prev # NoFence
    /\ \E v \in vmas : userptr[v].pte = userptr[v].gen /\ userptr[v].gen > 0

\* The fence e->compute.pfence of engine i is in vm->resv and in the
\* reservation object of the external object.
PfenceInstalled(es, fs, i) ==
    /\ es[i].pfence # NoFence
    /\ fs[es[i].pfence].vm_resv
    /\ fs[es[i].pfence].ext_resv

\* C17: when the rebind worker sets resume_go (and wakes resume_wq), and
\* when a suspended context runs again, the new preempt fence of every
\* engine, respectively of that engine, is installed in vm->resv and in
\* the reservation object of every external object.
C17_InstalledBeforeResume ==
    /\ [][(resume_go' # resume_go /\ resume_go' # 0) =>
            \A i \in 1 .. Len(engines) :
                PfenceInstalled(engines', pfences', i)]_vmvars
    /\ [][\A i \in 1 .. Len(engines) :
            (/\ Len(engines') = Len(engines)
             /\ engines[i].ctx = "suspended"
             /\ engines'[i].ctx = "running") =>
            PfenceInstalled(engines', pfences', i)]_vmvars

\* Both contexts of the VM run again after a run of the rebind worker
\* that released them.
C17_Witness ==
    /\ resume_go = 1
    /\ rpc = "idle"
    /\ Len(engines) = NumEngines
    /\ \A i \in 1 .. Len(engines) :
          /\ engines[i].prev # NoFence
          /\ engines[i].ctx = "running"
          /\ PfenceInstalled(engines, pfences, i)

\* The step is vma_userptr_invalidate, up to its wait, of a VMA that is
\* bound and not destroyed (the call for any other VMA returns at once and
\* its pages are gone, which userptr records).
InvalidateBoundStep ==
    /\ npc = 0
    /\ ninval' = ninval + 1
    /\ userptr' = userptr
    /\ \E v \in UserptrList(vma) :
          /\ vma[v].initial_bind /\ ~vma[v].destroyed
          /\ vma' = [vma EXCEPT ![v].stale = TRUE]

\* Every preempt fence of vm->resv that has not signalled is armed.
ResvArmed(fs) ==
    \A g \in DOMAIN fs : (fs[g].vm_resv /\ ~fs[g].signaled) => fs[g].armed

SpecPreemptFair ==
    /\ SpecPreempt
    /\ WF_vmvars(PreemptWork)
    /\ WF_vmvars(vma_userptr_invalidate_wait)
    /\ WF_vmvars(PreemptFenceSignal)
    /\ WF_vmvars(ContextResume)

\* PREEMPT-REQUESTED: signaling is enabled on the preempt fence of the
\* engine with this id.
CtxArmed(id) ==
    /\ id <= Len(engines)
    /\ engines[EngineIdx(engines, id)].pfence # NoFence
    /\ pfences[engines[EngineIdx(engines, id)].pfence].armed

\* RESUMED: the context runs and a preempt fence that has not signalled is
\* installed for it.
CtxResumed(id) ==
    /\ id <= Len(engines)
    /\ engines[EngineIdx(engines, id)].ctx = "running"
    /\ PfenceInstalled(engines, pfences, EngineIdx(engines, id))
    /\ ~pfences[engines[EngineIdx(engines, id)].pfence].signaled
    /\ ~pfences[engines[EngineIdx(engines, id)].pfence].armed

\* C19: a context runs again only after its fence was armed and signalled
\* and a new one installed, and every context whose preempt fence is
\* armed comes to run again with a new fence installed, unless the VM is
\* closed.
C19_Resumed ==
    /\ [][\A i \in 1 .. Len(engines) :
            (/\ Len(engines') = Len(engines)
             /\ engines[i].ctx = "suspended"
             /\ engines'[i].ctx = "running") =>
            (/\ engines[i].prev # NoFence
             /\ pfences[engines[i].prev].armed
             /\ pfences[engines[i].prev].signaled
             /\ PfenceInstalled(engines', pfences', i))]_vmvars
    /\ \A id \in 1 .. NumEngines :
          CtxArmed(id) ~> (CtxResumed(id) \/ xe_vm_is_closed(size))

\* The userptr VMAs that are bound: through their initial bind and not
\* destroyed.
BoundUserptr(tab) ==
    {v \in UserptrList(tab) : tab[v].initial_bind /\ ~tab[v].destroyed}

corevars == <<engines, pfences, resume_go, userptr, npc, ri, pt_root, flags,
              size, vma, vmas, pt, pending, async_error,
              munmap_rebind_inflight, capture, fences, lock, wq, wpc, wop,
              ipc, iargs, iret, nioctl, cpc, rq, rpc, nfail, ninval, serial,
              hist>>

\* A VM of the given mode as xe_vm_create leaves it, nothing mapped.
CoreInit(mode) ==
    /\ pt_root = xe_pt_create(PtRootLevel)
    /\ engines = <<>> /\ pfences = <<>> /\ resume_go = 0
    /\ userptr = <<>> /\ npc = 0 /\ ri = 0
    /\ flags = [async |-> FALSE, mode |-> mode, capture |-> FALSE]
    /\ size = VmSize
    /\ vma = <<>> /\ vmas = {}
    /\ pt = [p \in Pages |-> Empty]
    /\ pending = <<>> /\ async_error = 0
    /\ munmap_rebind_inflight = FALSE
    /\ capture = NoCapture /\ fences = <<>>
    /\ lock = "free" /\ wq = Idle /\ wpc = "idle" /\ wop = NoOp
    /\ ipc = "idle" /\ iargs = NoArgs /\ iret = 0 /\ nioctl = 0
    /\ cpc = "open" /\ rq = Idle /\ rpc = "idle"
    /\ nfail = 0 /\ ninval = 0 /\ serial = 0
    /\ hist = [done |-> 0, failed |-> 0, busy |-> FALSE]

\* for_each_gt
Gts == 1 .. NumGt

\* One userptr VMA of a fault-mode VM, bound on no GT yet.  Per GT:
\* vma->usm.gt[id].num_leafs, the recorded leaves whose entries are still
\* written, and the TLB ("none", "cached", "sent", "acked").  pc, id, i,
\* needs and err are xe_vm_invalidate_vma's position and locals; ret is
\* what the notifier returned last; had is the GTs that had leaves when
\* the running invalidation began.
InitUsm ==
    /\ CoreInit("fault")
    /\ mig = <<>>
    /\ walk = <<>>
    /\ upin = <<>>
    /\ usm = [num_leafs |-> [g \in Gts |-> 0],
              written |-> [g \in Gts |-> {}],
              tlb |-> [g \in Gts |-> "none"],
              pc |-> "idle", id |-> 1, i |-> 0, needs |-> {}, err |-> 0,
              ret |-> "none", had |-> {}, runs |-> 0]

usmrest == <<mig, walk, upin>>

\* A page fault binds the VMA on one GT: xe_pt_prepare_bind resets
\* num_leafs and vma_add_leaf records every leaf range written.
UsmFaultBind ==
    /\ usm.pc = "idle"
    /\ usm.runs < MaxUsmRuns
    /\ \E g \in Gts, n \in 1 .. MaxLeafs :
         /\ usm.written[g] = {}
         /\ usm' = [usm EXCEPT !.num_leafs[g] = n,
                               !.written[g] = 1 .. n,
                               !.tlb[g] = "cached"]
    /\ UNCHANGED <<corevars, usmrest>>

\* vma_userptr_invalidate of the bound VMA, up to the call of
\* xe_vm_invalidate_vma.
UsmInvalidateBegin ==
    /\ usm.pc = "idle"
    /\ usm.runs < MaxUsmRuns
    /\ \E g \in Gts : usm.num_leafs[g] > 0
    /\ usm' = [usm EXCEPT !.pc = "clear", !.id = 1, !.i = 0,
                          !.needs = {}, !.err = 0, !.ret = "none",
                          !.had = {g \in Gts : usm.num_leafs[g] > 0},
                          !.runs = @ + 1]
    /\ UNCHANGED <<corevars, usmrest>>

\* xe_map_memset of one recorded leaf.
UsmClearLeaf ==
    /\ usm.pc = "clear"
    /\ usm.i < usm.num_leafs[usm.id]
    /\ usm' = [usm EXCEPT !.written[usm.id] = @ \ {usm.i + 1},
                          !.needs = @ \cup {usm.id},
                          !.i = @ + 1]
    /\ UNCHANGED <<corevars, usmrest>>

\* The next GT of a for_each_gt loop, or the position after the loop.
UsmNextGt(u, after) ==
    IF u.id = NumGt THEN [u EXCEPT !.pc = after, !.id = 1, !.i = 0]
    ELSE [u EXCEPT !.id = @ + 1, !.i = 0]

\* xe_gt_tlb_invalidation of a GT whose leaves were cleared: a negative
\* seqno is returned at once; else num_leafs = 0 and the next GT.
UsmTlbInvalidate ==
    /\ usm.pc = "clear"
    /\ usm.i = usm.num_leafs[usm.id]
    /\ \E fail \in BOOLEAN :
         IF usm.id \in usm.needs /\ fail
         THEN usm' = [usm EXCEPT !.err = 0 - ENOMEM, !.pc = "ret"]
         ELSE usm' = UsmNextGt(
                  [usm EXCEPT !.num_leafs[usm.id] = 0,
                              !.tlb[usm.id] =
                                  IF usm.id \in usm.needs THEN "sent"
                                  ELSE @],
                  "wait")
    /\ UNCHANGED <<corevars, usmrest>>

\* xe_gt_tlb_invalidation_wait of each GT invalidated; a failed wait is
\* returned at once.
UsmTlbWait ==
    /\ usm.pc = "wait"
    /\ \E fail \in BOOLEAN :
         IF usm.id \in usm.needs /\ fail
         THEN usm' = [usm EXCEPT !.err = 0 - ETIME, !.pc = "ret"]
         ELSE usm' = UsmNextGt(
                  [usm EXCEPT !.tlb[usm.id] =
                                  IF usm.id \in usm.needs THEN "acked"
                                  ELSE @],
                  "ret")
    /\ UNCHANGED <<corevars, usmrest>>

\* Back in vma_userptr_invalidate: XE_WARN_ON(err) and return true.
UsmNotifierReturn ==
    /\ usm.pc = "ret"
    /\ usm' = [usm EXCEPT !.pc = "idle", !.ret = "true"]
    /\ UNCHANGED <<corevars, usmrest>>

NextUsm ==
    \/ UsmFaultBind
    \/ UsmInvalidateBegin
    \/ UsmClearLeaf
    \/ UsmTlbInvalidate
    \/ UsmTlbWait
    \/ UsmNotifierReturn

usmvars == <<corevars, xvars>>

SpecUsm == InitUsm /\ [][NextUsm]_usmvars

\* C21: when the invalidation of a bound userptr VMA of a fault-mode VM
\* returns, every leaf entry recorded for the VMA has been cleared and
\* the TLB invalidation of every GT that had leaves has been
\* acknowledged, unless the invalidation returns a failure: a failed TLB
\* invalidation or wait is never returned as a success.
C21_InvalidateSynchronous ==
    [][(usm.pc = "ret" /\ usm'.pc = "idle") =>
         \/ /\ usm'.ret = "true"
            /\ usm.err = 0
            /\ \A g \in usm.had : /\ usm'.written[g] = {}
                                   /\ usm'.tlb[g] = "acked"
         \/ /\ usm'.ret = "false"
            /\ usm.err # 0]_usmvars

(* ---------- pinning a userptr VMA under racing invalidations ---------- *)
\* One userptr VMA.  The notifier sequence numbers are kept by what the
\* code compares: stale is vma->userptr.notifier_seq differing from the
\* notifier's sequence (mmu_interval_read_retry), local_stale the same for
\* the local notifier_seq of xe_vma_userptr_pin_pages.  pc is the position
\* in xe_vma_userptr_pin_pages, wpc the position of preempt_rebind_work_func
\* around it ("none" when the caller is an ioctl); tries and retries count
\* the passes through the two retry labels and stop counting at MaxTries;
\* listed is the VMA being on vm->userptr.list.
InitPin ==
    /\ CoreInit("compute")
    /\ usm = <<>>
    /\ mig = <<>>
    /\ walk = <<>>
    /\ upin = [stale |-> TRUE, local_stale |-> FALSE, destroyed |-> FALSE,
               listed |-> TRUE, dirty |-> FALSE, pc |-> "idle", wpc |-> "none",
               pinned |-> 0, ret |-> 0, tries |-> 0, retries |-> 0]

pinrest == <<usm, mig, walk>>

\* A counter that stops at MaxTries.
CountTo(n) == IF n < MaxTries THEN n + 1 ELSE n

\* xe_vma_userptr_pin_pages returns r: to the ioctl, or to the worker,
\* which goes on to the rebind, or leaves on an error.
PinReturn(u, r) ==
    [u EXCEPT !.pc = "idle", !.ret = r,
              !.wpc = IF @ = "none" \/ r # 0 THEN "none" ELSE "rebind"]

\* The MMU notifier: the pages of the VMA are invalidated.
PinInvalidate ==
    /\ upin' = [upin EXCEPT !.stale = TRUE, !.local_stale = TRUE]
    /\ UNCHANGED <<corevars, pinrest>>

\* An unbind marks the VMA destroyed.
PinVmaDestroy ==
    /\ ~upin.destroyed
    /\ upin.pc = "idle" /\ upin.wpc = "none"
    /\ upin' = [upin EXCEPT !.destroyed = TRUE]
    /\ UNCHANGED <<corevars, pinrest>>

\* vma_destroy_work_func takes vm->lock for writing, which the worker
\* holds for reading from retry: to out_unlock_outer, and unlinks the VMA.
PinVmaFree ==
    /\ upin.destroyed /\ upin.listed
    /\ upin.pc = "idle" /\ upin.wpc \in {"none", "wait"}
    /\ upin' = [upin EXCEPT !.listed = FALSE]
    /\ UNCHANGED <<corevars, pinrest>>

\* A bind ioctl, or the rebind worker through xe_vm_userptr_pin, calls
\* xe_vma_userptr_pin_pages.
PinCall ==
    /\ upin.pc = "idle" /\ upin.wpc = "none"
    /\ upin.listed
    /\ \E w \in {"none", "pin"} :
         upin' = [upin EXCEPT !.pc = "begin", !.wpc = w, !.tries = 0,
                              !.retries = 0, !.ret = 0]
    /\ UNCHANGED <<corevars, pinrest>>

\* retry: the destroyed check and mmu_interval_read_begin.
PinBegin ==
    /\ upin.pc = "begin"
    /\ upin' = IF upin.destroyed \/ ~upin.stale
               THEN PinReturn([upin EXCEPT !.local_stale =
                                   IF upin.destroyed THEN @ ELSE FALSE], 0)
               ELSE [upin EXCEPT !.local_stale = FALSE, !.pc = "alloc"]
    /\ UNCHANGED <<corevars, pinrest>>

\* kmalloc of the page array.
PinAlloc ==
    /\ upin.pc = "alloc"
    /\ \E fail \in BOOLEAN :
         upin' = IF fail THEN PinReturn(upin, 0 - ENOMEM)
                 ELSE [upin EXCEPT !.pc = "pin", !.pinned = 0, !.ret = 0]
    /\ UNCHANGED <<corevars, pinrest>>

\* One turn of the pin_user_pages_fast loop.
PinUserPages ==
    /\ upin.pc = "pin"
    /\ \E r \in {0 - EFAULT} \cup (1 .. NumPinPages - upin.pinned) :
         upin' = IF r < 0 THEN [upin EXCEPT !.ret = r, !.pc = "out"]
                 ELSE [upin EXCEPT !.ret = r, !.pinned = @ + r,
                                   !.pc = IF upin.pinned + r = NumPinPages
                                          THEN "map" ELSE "pin"]
    /\ UNCHANGED <<corevars, pinrest>>

\* dma_map_page of the pinned pages.
PinDmaMap ==
    /\ upin.pc = "map"
    /\ \E fail \in BOOLEAN :
         upin' = [upin EXCEPT !.ret = IF fail THEN 0 - EFAULT ELSE @,
                              !.pc = "out"]
    /\ UNCHANGED <<corevars, pinrest>>

\* out: the pages are unpinned; without an error the sequence read at
\* retry: is stored, the VMA is dirty, and xe_vma_userptr_needs_repin
\* answering -EAGAIN goes back to retry:.
PinOut ==
    /\ upin.pc = "out"
    /\ upin' = IF upin.ret < 0 THEN PinReturn(upin, upin.ret)
               ELSE IF upin.local_stale
               THEN [upin EXCEPT !.stale = TRUE, !.dirty = TRUE,
                                 !.pc = "begin", !.tries = CountTo(@)]
               ELSE PinReturn([upin EXCEPT !.stale = FALSE,
                                           !.dirty = TRUE], 0)
    /\ UNCHANGED <<corevars, pinrest>>

\* preempt_rebind_work_func from alloc_preempt_fences to the wait for the
\* kernel fences: the dirty VMA is bound again, or an error ends the run.
PinWorkerRebind ==
    /\ upin.wpc = "rebind"
    /\ \E fail \in BOOLEAN :
         upin' = IF fail THEN [upin EXCEPT !.wpc = "none",
                                            !.ret = 0 - ENOMEM]
                 ELSE [upin EXCEPT !.wpc = "check", !.dirty = FALSE]
    /\ UNCHANGED <<corevars, pinrest>>

\* reinstall_preempt_fences, xe_vm_userptr_needs_repin and resume_go.
PinWorkerCheck ==
    /\ upin.wpc = "check"
    /\ upin' = IF upin.stale /\ upin.listed
               THEN [upin EXCEPT !.wpc = "wait", !.ret = 0 - EAGAIN]
               ELSE [upin EXCEPT !.wpc = "none", !.ret = 0]
    /\ UNCHANGED <<corevars, pinrest>>

\* err == -EAGAIN: the wait for the preempt fences, then goto retry.
PinWorkerWait ==
    /\ upin.wpc = "wait"
    /\ \E fail \in BOOLEAN :
         upin' = IF fail THEN [upin EXCEPT !.wpc = "none",
                                            !.ret = 0 - ETIME]
                 ELSE [upin EXCEPT !.wpc = IF upin.listed THEN "pin"
                                           ELSE "rebind",
                                   !.pc = IF upin.listed THEN "begin"
                                          ELSE "idle",
                                   !.tries = 0, !.retries = CountTo(@)]
    /\ UNCHANGED <<corevars, pinrest>>

\* The steps of the thread that pins.
PinRun ==
    \/ PinBegin
    \/ PinAlloc
    \/ PinUserPages
    \/ PinDmaMap
    \/ PinOut
    \/ PinWorkerRebind
    \/ PinWorkerCheck
    \/ PinWorkerWait

NextPin ==
    \/ PinInvalidate
    \/ PinVmaDestroy
    \/ PinVmaFree
    \/ PinCall
    \/ PinRun

SpecPin == InitPin /\ [][NextPin]_usmvars

\* The thread that pins keeps running, and the writer waiting for vm->lock
\* gets it when the worker drops it; nothing is assumed of the notifier.
SpecPinFair == SpecPin /\ WF_usmvars(PinRun) /\ SF_usmvars(PinVmaFree)

PinBusy == upin.pc # "idle" \/ upin.wpc # "none"

\* C22: a pin of a userptr VMA, and a run of the rebind worker around it,
\* come to an end whatever the notifier does: the retries after a racing
\* invalidation are bounded, and once the bound is passed the call stops
\* with an error.
C22_RetriesBounded ==
    /\ [](upin.tries < MaxTries /\ upin.retries < MaxTries)
    /\ (PinBusy ~> ~PinBusy)

(* -------------------- a bind that fails part-way -------------------- *)
RECURSIVE PtFreed(_), PtFreedFrom(_, _)
\* The nodes xe_pt_destroy frees when called on a node: the node, and
\* the children of a directory whose num_live is not 0.
PtFreed(node) ==
    IF node.kind # "pt" THEN 0
    ELSE 1 + (IF node.level > 0 /\ node.num_live > 0
              THEN PtFreedFrom(node, 1) ELSE 0)
PtFreedFrom(node, i) ==
    IF i > PtEntries THEN 0
    ELSE PtFreed(node.slots[i]) + PtFreedFrom(node, i + 1)

RECURSIVE xe_pt_populate_budget(_, _, _, _, _, _, _)
\* xe_pt_populate_for_vma on a node just created, from entry i on, when
\* only the next b calls of xe_pt_create succeed: whether it returned an
\* error, the calls left, the node as it stands, and the nodes created
\* that no entry holds (a child whose own population failed is returned
\* from without being destroyed or stored).
xe_pt_populate_budget(v, node, start, end, rebind, b, i) ==
    IF node.level = 0
    THEN [err |-> FALSE, b |-> b, lost |-> 0,
          tree |-> xe_pt_populate_for_vma(v, node, start, end, rebind)]
    ELSE IF i > xe_pt_idx(end - 1, node.level)
    THEN [err |-> FALSE, b |-> b, lost |-> 0, tree |-> node]
    ELSE IF xe_pte_hugepage_possible(v, node.level,
                SlotCur(start, node.level, i),
                SlotEnd(start, end, node.level, i))
    THEN xe_pt_populate_budget(v,
             [node EXCEPT !.num_live = IF rebind THEN @ ELSE @ + 1,
                          !.slots[i + 1] =
                              PtPte(v, SlotCur(start, node.level, i))],
             start, end, rebind, b, i + 1)
    ELSE IF b = 0
    THEN [err |-> TRUE, b |-> 0, lost |-> 0, tree |-> node]
    ELSE LET c == xe_pt_populate_budget(v, xe_pt_create(node.level - 1),
                      SlotCur(start, node.level, i),
                      SlotEnd(start, end, node.level, i), rebind, b - 1,
                      xe_pt_idx(SlotCur(start, node.level, i),
                                node.level - 1))
         IN IF c.err
            THEN [err |-> TRUE, b |-> c.b, tree |-> node,
                  lost |-> PtCount(c.tree) + c.lost]
            ELSE xe_pt_populate_budget(v,
                     [node EXCEPT
                        !.num_live = IF rebind THEN @ ELSE @ + 1,
                        !.slots[i + 1] = c.tree],
                     start, end, rebind, c.b, i + 1)

\* unwind: xe_pt_destroy of every pte[] filled so far, a NULL one
\* (an entry folded into a huge page) included.
xe_pt_unwind(a, m) ==
    IF m.nulls THEN [a EXCEPT !.err = TRUE, !.oops = TRUE]
    ELSE [a EXCEPT !.err = TRUE, !.leaked = @ + m.total - m.freed]

RECURSIVE xe_pt_prepare_budget(_, _, _, _, _, _)
RECURSIVE xe_pt_prepare_middle(_, _, _, _, _, _, _, _, _)
\* The loop of __xe_pt_prepare_bind over the entries it fills itself,
\* i to last: m is pte[] so far (the nodes in it, those xe_pt_destroy
\* would free, whether it holds a NULL), a the state of the call; then
\* the descent into a partial last entry and the update recorded.
xe_pt_prepare_middle(v, node, start, end, rebind, a, m, i, pe) ==
    LET lo == xe_pt_idx(end - 1, node.level)
        last == IF pe THEN lo - 1 ELSE lo
        cur == SlotCur(start, node.level, i)
        cend == SlotEnd(start, end, node.level, i)
    IN IF i > last
       THEN LET a4 == IF pe
                      THEN xe_pt_prepare_budget(v, node.slots[lo + 1],
                               SlotCur(start, node.level, lo), end,
                               rebind, a)
                      ELSE a
            IN IF a4.err THEN xe_pt_unwind(a4, m)
               ELSE IF m.n = 0 THEN a4
               ELSE [a4 EXCEPT !.held = @ + m.total,
                               !.freed = @ + m.freed,
                               !.folds = @ \/ m.nulls]
       ELSE IF xe_pte_hugepage_possible(v, node.level, cur, cend)
       THEN xe_pt_prepare_middle(v, node, start, end, rebind, a,
                [m EXCEPT !.nulls = TRUE, !.n = @ + 1], i + 1, pe)
       ELSE IF a.b = 0
       THEN xe_pt_unwind(a, m)
       ELSE LET c == xe_pt_populate_budget(v,
                         xe_pt_create(node.level - 1), cur, cend, rebind,
                         a.b - 1, xe_pt_idx(cur, node.level - 1))
            IN IF c.err
               THEN xe_pt_unwind(
                        [a EXCEPT !.b = c.b,
                                  !.leaked = @ + c.lost + PtCount(c.tree)
                                               - PtFreed(c.tree)],
                        m)
               ELSE xe_pt_prepare_middle(v, node, start, end, rebind,
                        [a EXCEPT !.b = c.b],
                        [m EXCEPT !.total = @ + PtCount(c.tree),
                                  !.freed = @ + PtFreed(c.tree),
                                  !.n = @ + 1],
                        i + 1, pe)

\* __xe_pt_prepare_bind when only the next a.b calls of xe_pt_create and
\* the next a.k calls of kmalloc_array succeed (an array of no entries
\* is not allocated).
xe_pt_prepare_budget(v, node, start, end, rebind, a) ==
    IF node.level = 0 THEN a
    ELSE
    LET so == xe_pt_idx(start, node.level)
        lo == xe_pt_idx(end - 1, node.level)
        pb == /\ node.slots[so + 1].kind = "pt"
              /\ xe_pt_partial_entry(start,
                     Min(xe_pt_next_start(start, node.level), end),
                     node.level)
        pe == /\ node.slots[lo + 1].kind = "pt"
              /\ lo > so
              /\ xe_pt_partial_entry(
                     Max(start, xe_pt_prev_end(end, node.level)), end,
                     node.level)
        my_added_pte == lo + 1 - so - (IF pb THEN 1 ELSE 0)
                                    - (IF pe THEN 1 ELSE 0)
        a1 == IF pb
              THEN xe_pt_prepare_budget(v, node.slots[so + 1], start,
                       SlotEnd(start, end, node.level, so), rebind, a)
              ELSE a
    IN IF a1.err THEN a1
       ELSE IF my_added_pte > 0 /\ a1.k = 0 THEN [a1 EXCEPT !.err = TRUE]
       ELSE xe_pt_prepare_middle(v, node, start, end, rebind,
                [a1 EXCEPT !.k = IF my_added_pte > 0 THEN @ - 1 ELSE @],
                [total |-> 0, freed |-> 0, nulls |-> FALSE, n |-> 0],
                IF pb THEN so + 1 ELSE so, pe)

\* xe_pt_abort_bind over the updates recorded: xe_pt_destroy of every
\* pt_entries[j].
xe_pt_abort_bind(a) ==
    IF a.oops THEN a
    ELSE IF a.folds THEN [a EXCEPT !.oops = TRUE]
    ELSE [a EXCEPT !.leaked = @ + a.held - a.freed]

\* __xe_vm_bind_vma of a VMA when the allocations give out after b nodes
\* and k arrays, or when xe_migrate_update_pgtables fails.
xe_vm_bind_vma_budget(v, root, rebind, b, k, submit) ==
    LET a == xe_pt_prepare_budget(v, root, v.start, v.end + 1, rebind,
                 [err |-> FALSE, oops |-> FALSE, b |-> b, k |-> k,
                  held |-> 0, freed |-> 0, folds |-> FALSE, leaked |-> 0])
    IN IF a.err \/ submit THEN [xe_pt_abort_bind(a) EXCEPT !.err = TRUE]
       ELSE a

\* Where a bind fails: at a call of xe_pt_create, at a call of
\* kmalloc_array, or at the submission (PtSize allocations never give out).
PtFailPoints ==
    {[b |-> i, k |-> PtSize, submit |-> FALSE] : i \in 0 .. MaxAllocs}
    \cup {[b |-> PtSize, k |-> i, submit |-> FALSE] : i \in 0 .. MaxAllocs}
    \cup {[b |-> PtSize, k |-> PtSize, submit |-> TRUE]}

\* The VMAs a bind can be asked for: a new one over a free range, or one
\* that is bound, to be bound again.
PtBindable ==
    (IF Len(vma) < MaxPtVmas
     THEN {xe_vma_create(bo[1], bo[2], r[1], r[2]) :
             r \in {q \in PtRanges :
                      /\ ~xe_vma_create_bug(q[1], q[2], size)
                      /\ \A i \in vmas : \/ vma[i].end < q[1]
                                         \/ q[2] < vma[i].start},
             bo \in PtBos}
     ELSE {})
    \cup {vma[i] : i \in {j \in vmas : vma[j].gt_present}}

\* A first bind or a rebind that fails: nothing was committed.
PtBindFail ==
    /\ ~hist.oops
    /\ nfail < MaxFail
    /\ \E f \in PtFailPoints, v \in PtBindable :
           LET a == xe_vm_bind_vma_budget(v, pt_root, v.gt_present, f.b,
                                          f.k, f.submit)
           IN /\ a.err
              /\ hist' = [hist EXCEPT !.leaked = a.leaked,
                                      !.oops = a.oops, !.trip = FALSE]
    /\ nfail' = nfail + 1
    /\ UNCHANGED <<pt_root, vma, vmas>>
    /\ UNCHANGED <<pvars, flags, size, pt, pending, async_error,
                   munmap_rebind_inflight, capture, fences, lock, wq, wpc,
                   wop, ipc, iargs, iret, nioctl, cpc, rq, rpc, ninval,
                   serial>>

NextPTFail ==
    \/ ~hist.oops /\ NextPT
    \/ PtBindFail

SpecPTFail == InitPT /\ [][NextPTFail]_vmvars

\* C23: a bind that fails in its prepare phase or at the submission of
\* the page-table update returns with the tree as it was, and with every
\* node it allocated freed.
C23_BindFailureClean ==
    [][nfail' = nfail + 1 =>
         /\ pt_root' = pt_root
         /\ ~hist'.oops
         /\ hist'.leaked = 0]_vmvars

(* ----------------- a bind ioctl that fails under vm->lock ------------- *)
\* C24: a bind ioctl that returns an error after its loops under vm->lock
\* started creating, splitting or removing VMAs leaves the index holding
\* exactly the VMAs it held before.
C24_FailedIoctlRestoresIndex ==
    [][(ipc = "commit" /\ ipc' = "idle" /\ iret' # 0) => vmas' = vmas]_vmvars

(* ------------------- an unbind and the fence it returns --------------- *)
\* C25: the VMA of a successful unbind is destroyed only once the fence
\* returned for the page-table clear has signalled: the worker does not
\* free it, or queue its destroy work, while the callback of its op fence
\* still waits on that fence.
C25_DestroyAfterFence ==
    [][(/\ wop.kind \in {"UNMAP", "UNMAP_ALL"}
        /\ wop.vma # NoVma
        /\ wop.fence # NoFence
        /\ wpc' = "top"
        /\ ~(vma[wop.vma].freed \/ vma[wop.vma].destroy_work)
        /\ vma'[wop.vma].freed \/ vma'[wop.vma].destroy_work)
       => fences'[wop.fence].upd # "pending"]_vmvars

(* ------------------- who changes the index of VMAs -------------------- *)
\* C26 as stated: on a VM with async bind ops an ioctl that returns 0 has
\* only enqueued its operations and has left the index as it was.
C26_OnlyWorkerChangesIndex ==
    [][(flags.async /\ ipc = "commit" /\ ipc' = "idle" /\ iret' = 0)
       => vmas' = vmas]_vmvars

\* C26: the index changes only in the part of the bind ioctl that runs
\* under vm->lock, and in the teardown of a closed VM, never in the async
\* worker; when the ioctl has enqueued its last operation, the VMA of a
\* MAP is in the index already and the VMA of an UNMAP is out of it.
C26_IoctlChangesIndex ==
    [][/\ vmas' # vmas => \/ ipc = "commit" /\ ipc' # "commit"
                          \/ cpc = "teardown" /\ cpc' = "done"
       /\ (ipc = "commit" /\ Len(pending') > Len(pending)) =>
            LET op == pending'[Len(pending')]
            IN /\ op.kind \in {"MAP", "MAP_USERPTR"} => op.vma \in vmas'
               /\ op.kind \in {"UNMAP", "UNMAP_ALL"} => op.vma \notin vmas']_vmvars

\* An async MAP was accepted and its VMA is in the index while the worker
\* has executed nothing yet.
C26_Witness ==
    /\ flags.async
    /\ ipc = "idle" /\ iret = 0
    /\ pending # <<>>
    /\ pending[1].kind = "MAP"
    /\ pending[1].vma \in vmas
    /\ hist.done = 0
    /\ wpc = "idle"

(* ------------- xe_migrate_clear and xe_migrate_copy by chunks --------- *)
\* mig: bo_size is bo->size; size, ofs and fence are the locals of the
\* call (fence 0 is NULL, otherwise the job whose finished fence it is);
\* jobs are the jobs pushed to m->eng by this call, in order; locked is
\* m->job_mutex; resv the fence added to the object's reservation.
InitMig ==
    /\ CoreInit("none")
    /\ usm = <<>>
    /\ walk = <<>>
    /\ upin = <<>>
    /\ mig = [pc |-> "idle", kind |-> "clear", bo_size |-> 0, size |-> 0,
              ofs |-> 0, fence |-> 0, jobs |-> <<>>, ret |-> "none",
              runs |-> 0, locked |-> FALSE, resv |-> 0]

migrest == <<usm, walk, upin>>

\* DIV_ROUND_UP
DIV_ROUND_UP(n, d) == (n + d - 1) \div d

\* Entry of xe_migrate_clear / xe_migrate_copy: u32 size = bo->size, and
\* dma_resv_reserve_fences, which can fail.
MigCall ==
    /\ mig.pc = "idle"
    /\ mig.runs < MaxMigRuns
    /\ \E kind \in {"clear", "copy"}, s \in 1 .. MaxBoSize, ok \in BOOLEAN :
         mig' = [mig EXCEPT !.kind = kind, !.bo_size = s,
                            !.size = s % MigWord, !.ofs = 0, !.fence = 0,
                            !.jobs = <<>>, !.resv = 0,
                            !.runs = @ + 1,
                            !.pc = IF ok THEN "loop" ELSE "idle",
                            !.ret = IF ok THEN "none" ELSE "error"]
    /\ UNCHANGED <<corevars, migrest>>

\* One pass of while (size): the batch, the job under m->job_mutex, the
\* dependencies of the first job on the object's reservation, then arm
\* and push.  In xe_migrate_clear a failed xe_bb_create_job leaves by
\* the label after mutex_unlock.
MigChunkJob ==
    /\ mig.pc = "loop"
    /\ mig.size > 0
    /\ \E out \in {"ok", "bb", "job", "deps"} :
         LET n == IF MigChunk < mig.size THEN MigChunk ELSE mig.size
         IN /\ out = "deps" => mig.fence = 0
            /\ out # "bb" => ~mig.locked
            /\ mig' =
                 IF out = "ok"
                 THEN [mig EXCEPT
                         !.jobs = Append(@, [ofs |-> mig.ofs, len |-> n,
                                             resv_deps |-> mig.fence = 0,
                                             done |-> FALSE]),
                         !.fence = Len(mig.jobs) + 1,
                         !.ofs = @ + n, !.size = @ - n]
                 ELSE [mig EXCEPT
                         !.pc = "idle", !.ret = "error",
                         !.locked = out = "job" /\ mig.kind = "clear"]
    /\ UNCHANGED <<corevars, migrest>>

\* After the loop: dma_resv_add_fence(bo->ttm.base.resv, fence, ...) and
\* return fence.  With no pass through the loop the fence is NULL:
\* adding it is an oops, or goes unnoticed and NULL is returned.
MigReturn ==
    /\ mig.pc = "loop"
    /\ mig.size = 0
    /\ IF mig.fence = 0
       THEN \E o \in {"oops", "null"} :
                mig' = [mig EXCEPT !.pc = IF o = "oops" THEN "oops" ELSE "idle",
                                   !.ret = o]
       ELSE mig' = [mig EXCEPT !.pc = "idle", !.ret = "fence",
                               !.resv = mig.fence]
    /\ UNCHANGED <<corevars, migrest>>

\* The migration engine runs its jobs one after the other, in the order
\* of xe_sched_job_push; a job's finished fence signals when it is done.
MigJobRun ==
    /\ \E n \in 1 .. Len(mig.jobs) :
         /\ ~mig.jobs[n].done
         /\ \A k \in 1 .. (n - 1) : mig.jobs[k].done
         /\ mig' = [mig EXCEPT !.jobs[n].done = TRUE]
    /\ UNCHANGED <<corevars, migrest>>

NextMig ==
    \/ MigCall
    \/ MigChunkJob
    \/ MigReturn
    \/ MigJobRun

SpecMig == InitMig /\ [][NextMig]_usmvars

\* C27: a clear or a copy of an object of size S that does not fail
\* returns a fence after pushing DIV_ROUND_UP(S, CHUNK_SZ) jobs over
\* consecutive chunks of at most CHUNK_SZ in ascending order, only the
\* first waiting on the object's reservation; the fence, which is the one
\* added to the reservation, has not signalled while a job is not done.
C27_ChunkJobs ==
    (mig.pc \in {"idle", "oops"} /\ mig.ret \notin {"none", "error"}) =>
        /\ mig.ret = "fence"
        /\ Len(mig.jobs) = DIV_ROUND_UP(mig.bo_size, MigChunk)
        /\ \A n \in 1 .. Len(mig.jobs) :
               /\ mig.jobs[n].ofs = (n - 1) * MigChunk
               /\ mig.jobs[n].len =
                      IF mig.bo_size - mig.jobs[n].ofs < MigChunk
                      THEN mig.bo_size - mig.jobs[n].ofs ELSE MigChunk
               /\ mig.jobs[n].resv_deps = (n = 1)
        /\ mig.resv = mig.fence
        /\ mig.jobs[mig.fence].done =>
               \A n \in 1 .. Len(mig.jobs) : mig.jobs[n].done

\* The same for the objects whose size fits the u32 it is copied to.
C27_ChunkJobsSmall == mig.bo_size < MigWord => C27_ChunkJobs

(* --------- writing page-table updates: by the CPU and by the GPU ------ *)
\* A struct xe_vm_pgtable_update: the level of update->pt, ofs and
\* qwords, target_offset, flags (GEN12_PDE_64K or none), and pt_entries
\* (<<>> is NULL, as for a leaf; 0 is a NULL entry, any other number the
\* child node put there); fn is the populatefn it is handed on with.
pgtable_update(level, ofs, qwords, toff, f64k, ptes, fn) ==
    [level |-> level, ofs |-> ofs, qwords |-> qwords, target_offset |-> toff,
     f64k |-> f64k, pt_entries |-> ptes, fn |-> fn]

\* gen8_pde_encode | update->flags, gen8_pte_encode, __xe_vm_empty_pte
gen8_pde_encode(child, f64k) == [k |-> "pde", bo |-> child, f64k |-> f64k]
gen8_pte_encode(bo_offset, level) ==
    [k |-> "pte", ofs |-> bo_offset, level |-> level]
xe_vm_empty_pte(level) == [k |-> "empty", level |-> level]

\* xe_vm_populate_pgtable: the num_qwords values it stores from data on,
\* for the entries from qword_ofs on.
xe_vm_populate_pgtable(u, qword_ofs, num_qwords) ==
    LET page_size == IF u.level = 0 /\ u.f64k THEN Upd64k
                     ELSE UpdEntries ^ u.level
        bo_offset == u.target_offset + page_size * (qword_ofs - u.ofs)
    IN [i \in 1 .. num_qwords |->
          IF u.pt_entries # <<>> /\ u.pt_entries[i] # 0
          THEN gen8_pde_encode(u.pt_entries[i], u.f64k)
          ELSE gen8_pte_encode(bo_offset + (i - 1) * page_size, u.level)]

\* xe_migrate_clear_pgtable_callback
xe_migrate_clear_pgtable_callback(u, qword_ofs, num_qwords) ==
    [i \in 1 .. num_qwords |-> xe_vm_empty_pte(u.level)]

populatefn(u, qword_ofs, num_qwords) ==
    IF u.fn = "populate" THEN xe_vm_populate_pgtable(u, qword_ofs, num_qwords)
    ELSE xe_migrate_clear_pgtable_callback(u, qword_ofs, num_qwords)

\* Storing the values vals from entry ofs of table t on.
UpdStore(tabs, t, ofs, vals) ==
    [tabs EXCEPT ![t] = [e \in DOMAIN tabs[t] |->
                            IF e >= ofs /\ e < ofs + Len(vals)
                            THEN vals[e - ofs + 1] ELSE tabs[t][e]]]

RECURSIVE update_pgtables_cpu(_, _, _, _)
\* The second loop of xe_migrate_update_pgtables_cpu from update i on:
\* one populatefn over the whole update into plain memory, one call and
\* one writeq for each entry into I/O memory.
RECURSIVE cpu_iomem(_, _, _, _)
cpu_iomem(tabs, t, u, j) ==
    IF j >= u.qwords THEN tabs
    ELSE cpu_iomem(UpdStore(tabs, t, j + u.ofs, populatefn(u, j + u.ofs, 1)),
                   t, u, j + 1)
update_pgtables_cpu(tabs, updates, is_iomem, i) ==
    IF i > Len(updates) THEN tabs
    ELSE update_pgtables_cpu(
             IF is_iomem THEN cpu_iomem(tabs, i, updates[i], 0)
             ELSE UpdStore(tabs, i, updates[i].ofs,
                           populatefn(updates[i], updates[i].ofs,
                                      updates[i].qwords)),
             updates, is_iomem, i + 1)

\* Bytes of a table, which is one page of the window at ggtt_ofs.
UpdPageBytes == UpdEntries * 8

RECURSIVE write_pgtable(_, _, _, _, _)
\* write_pgtable: the MI_STORE_DATA_IMM commands appended to the batch
\* for one update, each with its address in the window and its values.
write_pgtable(bb, ggtt_ofs, u, ofs, left) ==
    LET chunk == Min(u.qwords, UpdEntries - 1)
        cmd == [addr |-> ggtt_ofs + ofs * 8, vals |-> populatefn(u, ofs, chunk)]
    IN IF left - chunk <= 0 THEN Append(bb, cmd)
       ELSE write_pgtable(Append(bb, cmd), ggtt_ofs, u, ofs + chunk,
                          left - chunk)

RECURSIVE write_pgtables(_, _, _)
\* The loop over the updates in xe_migrate_update_pgtables.
write_pgtables(bb, updates, i) ==
    IF i > Len(updates) THEN bb
    ELSE write_pgtables(
             write_pgtable(bb, (i - 1) * UpdPageBytes, updates[i],
                           updates[i].ofs, updates[i].qwords),
             updates, i + 1)

RECURSIVE UpdExec(_, _, _)
\* The engine executes the stores of the batch: the window maps page i
\* to the table of update i.
UpdExec(tabs, bb, n) ==
    IF n > Len(bb) THEN tabs
    ELSE UpdExec(UpdStore(tabs, bb[n].addr \div UpdPageBytes + 1,
                          (bb[n].addr % UpdPageBytes) \div 8, bb[n].vals),
                 bb, n + 1)

\* The updates __xe_pt_prepare_bind and the unbind can record for one
\* table: XE_BUG_ON(update->qwords > 0x1ff) holds.
UpdInputs ==
    {pgtable_update(l, o, q, t, f, p, fn) :
        l \in {0}, o \in 0 .. (UpdEntries - 1), q \in 1 .. (UpdEntries - 1),
        t \in {0, 1}, f \in BOOLEAN, p \in {<<>>}, fn \in {"populate", "clear"}}
    \cup {pgtable_update(l, o, q, t, f, p, fn) :
        l \in {1}, o \in 0 .. (UpdEntries - 1), q \in 1 .. (UpdEntries - 1),
        t \in {0, 1}, f \in BOOLEAN,
        p \in UNION {[1 .. n -> 0 .. 2] : n \in 1 .. (UpdEntries - 1)},
        fn \in {"populate", "clear"}}

UpdLists ==
    LET ok == {u \in UpdInputs :
                 /\ u.ofs + u.qwords <= UpdEntries
                 /\ u.pt_entries # <<>> => Len(u.pt_entries) = u.qwords}
    IN {<<u>> : u \in ok}
       \cup {<<u, v>> : u \in ok,
                        v \in {w \in ok : w.level = 0 /\ w.target_offset = 0
                                           /\ ~w.f64k}}

UpdTables == [t \in 1 .. 2 |-> [e \in 0 .. (UpdEntries - 1) |-> [k |-> "old"]]]

\* mig: the list of updates of one call of xe_migrate_update_pgtables,
\* and the tables as each way of writing leaves them: cpu (plain
\* memory), io (I/O memory), gpu (the batch bb, once the engine ran it).
InitUpd ==
    /\ CoreInit("none")
    /\ usm = <<>>
    /\ walk = <<>>
    /\ upin = <<>>
    /\ \E l \in UpdLists :
         mig = [updates |-> l, cpu |-> UpdTables, io |-> UpdTables,
                gpu |-> UpdTables, bb |-> <<>>, done |-> {}]

UpdCpu ==
    /\ "cpu" \notin mig.done
    /\ mig' = [mig EXCEPT !.cpu = update_pgtables_cpu(@, mig.updates, FALSE, 1),
                          !.done = @ \cup {"cpu"}]
    /\ UNCHANGED <<corevars, migrest>>

UpdCpuIomem ==
    /\ "io" \notin mig.done
    /\ mig' = [mig EXCEPT !.io = update_pgtables_cpu(@, mig.updates, TRUE, 1),
                          !.done = @ \cup {"io"}]
    /\ UNCHANGED <<corevars, migrest>>

UpdGpuBuild ==
    /\ "bb" \notin mig.done
    /\ mig' = [mig EXCEPT !.bb = write_pgtables(<<>>, mig.updates, 1),
                          !.done = @ \cup {"bb"}]
    /\ UNCHANGED <<corevars, migrest>>

UpdGpuRun ==
    /\ "bb" \in mig.done
    /\ "gpu" \notin mig.done
    /\ mig' = [mig EXCEPT !.gpu = UpdExec(@, mig.bb, 1),
                          !.done = @ \cup {"gpu"}]
    /\ UNCHANGED <<corevars, migrest>>

NextUpd ==
    \/ UpdCpu
    \/ UpdCpuIomem
    \/ UpdGpuBuild
    \/ UpdGpuRun

SpecUpd == InitUpd /\ [][NextUpd]_usmvars

\* C28: for the same list of updates the CPU path, into plain memory and
\* entry by entry into I/O memory, and the stores of the GPU path write
\* the same value to the same entry of the same table.
C28_PathsAgree ==
    {"cpu", "io", "gpu"} \subseteq mig.done =>
        /\ mig.io = mig.cpu
        /\ mig.gpu = mig.cpu

\* The plain CPU path and the GPU path agree.
C28_PlainAndGpuAgree ==
    {"cpu", "gpu"} \subseteq mig.done => mig.gpu = mig.cpu

(* ----------------------- the page-table tree walker ------------------- *)
\* A table is named by its path from the root, the offsets taken on the
\* way down; walk.tree holds the tables that exist.  Addresses count
\* pages: 1ull << walk->shifts[level] is WalkSpan(level).
WalkSpan(level) == WalkEntries ^ level
WalkSize == WalkSpan(WalkRootLevel + 1)

round_up(x, n) == ((x + n - 1) \div n) * n
round_down(x, n) == (x \div n) * n

\* drm_pt_offset, drm_pt_covers
drm_pt_offset(addr, level) == (addr \div WalkSpan(level)) % WalkEntries
drm_pt_covers(addr, end, level) ==
    end - addr = WalkSpan(level) /\ addr % WalkSpan(level) = 0

\* The walker passing over no entry.
drm_pt_walk_skip_never(shared_pt_mode, addr, next, level) == FALSE

\* if (walk->shared_pt_mode && drm_pt_covers(addr, next, level, walk))
\*         continue;
drm_pt_walk_skip(shared_pt_mode, addr, next, level) ==
    shared_pt_mode /\ drm_pt_covers(addr, next, level)

\* drm_pt_addr_end without the rounding: the end of the range.
drm_pt_addr_end_range(addr, end, level) == end

\* drm_pt_addr_end
drm_pt_addr_end(addr, end, level) ==
    Min(round_up(addr + 1, WalkSpan(level)), end)

\* drm_pt_next without the skip of shared mode.
drm_pt_next_plain(offset, next, end, level, shared_pt_mode) ==
    [addr |-> next, offset |-> offset + 1, more |-> next # end]

\* drm_pt_next: the new addr and offset, and whether the loop goes on.
drm_pt_next(offset, next, end, level, shared_pt_mode) ==
    LET skip_to == round_down(end, WalkSpan(level))
        skip == shared_pt_mode /\ skip_to > next
        nxt == IF skip THEN skip_to ELSE next
    IN [addr |-> nxt,
        offset |-> offset + 1
                   + (IF skip THEN (skip_to - next) \div WalkSpan(level) ELSE 0),
        more |-> nxt # end]

\* drm_pt_walk_shared going on whatever *action says.
drm_pt_walk_shared_return_err(err, action) == err # 0

\* if (err || action != ACTION_SUBTREE) return err;
drm_pt_walk_shared_return(err, action) == err # 0 \/ action # "SUBTREE"

\* if (err) break; never taken.
drm_pt_walk_break_never(err) == FALSE

\* if (err) break;
drm_pt_walk_break(err) == err # 0

\* NULL for a table.
WalkNull == <<0 - 1>>

\* again: child = entries ? entries[offset] : NULL, and the same line
\* keeping what the callback left in child.
drm_pt_walk_child_kept(entry, child) == child
drm_pt_walk_child(entry, child) == entry

\* The frame of one call of drm_pt_walk_range: parent (path), whether
\* parent->dir is set, level, offset, addr, end, next, err, and where it
\* stands ("entry", "wait" for the call on the child, "post", "ret").
WalkFrame(path, dir, level, addr, end) ==
    [path |-> path, dir |-> dir, level |-> level,
     offset |-> drm_pt_offset(addr, level), addr |-> addr, end |-> end,
     next |-> addr, child |-> WalkNull, err |-> 0, pc |-> "entry"]

\* What a callback answers: its return value, *action, and what it makes
\* of *child: "same", "null", "new" for a table it allocated and put in
\* *child only, "install" for one it also put in the parent's entry.
WalkPlain == [err |-> 0, action |-> "SUBTREE", child |-> "same"]
WalkAnswers ==
    IF walk.odd < MaxOdd
    THEN {WalkPlain}
         \cup {[WalkPlain EXCEPT !.err = e] : e \in {0 - ENOMEM, 1}}
         \cup {[WalkPlain EXCEPT !.action = a] : a \in {"CONTINUE", "AGAIN"}}
         \cup {[WalkPlain EXCEPT !.child = c] : c \in {"null", "new", "install"}}
         \cup {[WalkPlain EXCEPT !.action = "AGAIN", !.child = c] :
                  c \in {"new", "install"}}
    ELSE {WalkPlain}

\* A callback as the log keeps it: its arguments (child is the table
\* *child names at the call, WalkNull for NULL; dir is whether the
\* parent has entries), its answer, and whether the walker then went
\* into the child.
WalkEvent(cb, f, child, r, descend) ==
    [cb |-> cb, path |-> f.path, offset |-> f.offset, level |-> f.level,
     addr |-> f.addr, next |-> f.next, dir |-> f.dir, child |-> child,
     err |-> r.err, action |-> r.action, out |-> r.child,
     descend |-> descend]

\* The trees walked: tables under the first entry of every table only,
\* or under the first two.
WalkTrees ==
    {{p \in UNION {[1 .. n -> 0 .. (WalkEntries - 1)] : n \in 0 .. WalkRootLevel} :
         \A k \in 1 .. Len(p) : p[k] <= hole} : hole \in {0, 1}}

\* walk: the arguments of one drm_pt_walk_range or drm_pt_walk_shared
\* (mode, tree, addr, end, whether ops->pt_post_descend is set), the
\* stack of calls, the callbacks made so far, and the value returned.
InitWalk ==
    /\ CoreInit("none")
    /\ usm = <<>>
    /\ mig = <<>>
    /\ upin = <<>>
    /\ \E mode \in {"normal", "shared"}, tree \in WalkTrees,
          post \in BOOLEAN, a \in 0 .. (WalkSize - 1), e \in 1 .. WalkSize :
         /\ a < e
         /\ walk = [mode |-> mode, tree |-> tree, has_post |-> post,
                    addr |-> a, end |-> e,
                    stack |-> IF mode = "normal"
                              THEN <<WalkFrame(<<>>, TRUE, WalkRootLevel, a, e)>>
                              ELSE <<>>,
                    log |-> <<>>, odd |-> 0,
                    pc |-> IF mode = "normal" THEN "run" ELSE "rootentry",
                    ret |-> 0]

walkrest == <<usm, mig, upin>>

WalkTop == walk.stack[Len(walk.stack)]
WalkSetTop(f) == [walk.stack EXCEPT ![Len(walk.stack)] = f]
WalkOdd(r) == IF r = WalkPlain THEN walk.odd ELSE walk.odd + 1

\* while (drm_pt_next(&offset, &addr, next, end, level, walk)), and the
\* return when it is over.
WalkAdvance(f) ==
    LET r == drm_pt_next(f.offset, f.next, f.end, f.level,
                         walk.mode = "shared")
    IN IF r.more
       THEN [f EXCEPT !.addr = r.addr, !.offset = r.offset, !.pc = "entry"]
       ELSE [f EXCEPT !.addr = r.addr, !.offset = r.offset, !.pc = "ret"]

\* Shared mode: an entry the range covers is passed over.
WalkSkipCovered ==
    /\ walk.pc = "run"
    /\ WalkTop.pc = "entry"
    /\ LET f == [WalkTop EXCEPT
                   !.next = drm_pt_addr_end(WalkTop.addr, WalkTop.end,
                                            WalkTop.level)]
       IN /\ drm_pt_walk_skip(walk.mode = "shared", f.addr, f.next, f.level)
          /\ walk' = [walk EXCEPT !.stack = WalkSetTop(WalkAdvance(f))]
    /\ UNCHANGED <<corevars, walkrest>>

\* One call of ops->pt_entry from the loop, and what the walker does
\* with the answer: break, again, continue, or the call on the child.
WalkEntry ==
    /\ walk.pc = "run"
    /\ WalkTop.pc = "entry"
    /\ LET f == [WalkTop EXCEPT
                   !.next = drm_pt_addr_end(WalkTop.addr, WalkTop.end,
                                            WalkTop.level)]
           entry == IF f.dir /\ Append(f.path, f.offset) \in walk.tree
                    THEN Append(f.path, f.offset) ELSE WalkNull
           read == drm_pt_walk_child(entry, f.child)
       IN /\ ~drm_pt_walk_skip(walk.mode = "shared", f.addr, f.next, f.level)
          /\ \E r \in {a \in WalkAnswers : a.child = "install" => f.dir} :
               LET child == CASE r.child = "same" -> read
                              [] r.child = "null" -> WalkNull
                              [] OTHER -> Append(f.path, f.offset)
                   g == [f EXCEPT !.child = child]
                   descend == /\ ~drm_pt_walk_break(r.err)
                              /\ r.action = "SUBTREE"
                              /\ f.level > 0 /\ child # WalkNull
                   log == Append(walk.log,
                                 WalkEvent("pt_entry", f, read, r, descend))
               IN walk' =
                    [walk EXCEPT
                       !.log = log, !.odd = WalkOdd(r),
                       !.tree = IF r.child = "install"
                                THEN @ \cup {Append(f.path, f.offset)} ELSE @,
                       !.stack =
                          IF drm_pt_walk_break(r.err)
                          THEN WalkSetTop([g EXCEPT !.err = r.err, !.pc = "ret"])
                          ELSE IF r.action = "AGAIN" THEN WalkSetTop(g)
                          ELSE IF descend
                          THEN Append(WalkSetTop([g EXCEPT !.pc = "wait"]),
                                      WalkFrame(child, r.child # "new" /\ f.level > 1,
                                                f.level - 1, f.addr, f.next))
                          ELSE WalkSetTop(WalkAdvance(g))]
    /\ UNCHANGED <<corevars, walkrest>>

\* A call of drm_pt_walk_range returns: to the loop of its caller, or
\* to drm_pt_walk_shared, or to the caller of the walk.
WalkReturn ==
    /\ walk.pc = "run"
    /\ WalkTop.pc = "ret"
    /\ LET err == WalkTop.err
           below == SubSeq(walk.stack, 1, Len(walk.stack) - 1)
       IN IF below = <<>>
          THEN walk' = [walk EXCEPT
                          !.stack = <<>>,
                          !.ret = err,
                          !.pc = IF walk.mode = "shared"
                                    /\ ~drm_pt_walk_break(err) /\ walk.has_post
                                 THEN "rootpost" ELSE "done"]
          ELSE LET g == below[Len(below)]
               IN walk' = [walk EXCEPT
                     !.stack =
                        [below EXCEPT ![Len(below)] =
                           IF ~drm_pt_walk_break(err) /\ walk.has_post
                           THEN [g EXCEPT !.pc = "post"]
                           ELSE IF drm_pt_walk_break(err)
                           THEN [g EXCEPT !.err = err, !.pc = "ret"]
                           ELSE WalkAdvance(g)]]
    /\ UNCHANGED <<corevars, walkrest>>

\* ops->pt_post_descend after the call on the child.
WalkPostDescend ==
    /\ walk.pc = "run"
    /\ WalkTop.pc = "post"
    /\ \E r \in {a \in WalkAnswers : a.action = "SUBTREE" /\ a.child = "same"} :
         walk' = [walk EXCEPT
                    !.log = Append(@, WalkEvent("pt_post_descend", WalkTop,
                                                WalkTop.child, r, FALSE)),
                    !.odd = WalkOdd(r),
                    !.stack = IF drm_pt_walk_break(r.err)
                              THEN WalkSetTop([WalkTop EXCEPT !.err = r.err,
                                                              !.pc = "ret"])
                              ELSE WalkSetTop(WalkAdvance(WalkTop))]
    /\ UNCHANGED <<corevars, walkrest>>

\* The root as drm_pt_walk_shared hands it to the callbacks: parent with
\* offset 0 at level + 1, over [addr, end).
WalkRoot ==
    [path |-> <<>>, dir |-> TRUE, level |-> WalkRootLevel + 1, offset |-> 0,
     addr |-> walk.addr, end |-> walk.end, next |-> walk.end,
     child |-> <<>>, err |-> 0, pc |-> "entry"]

\* drm_pt_walk_shared up to its call of drm_pt_walk_range.
WalkSharedEntry ==
    /\ walk.pc = "rootentry"
    /\ \E r \in {a \in WalkAnswers : a.child = "same"} :
         LET descend == ~drm_pt_walk_shared_return(r.err, r.action)
         IN walk' = [walk EXCEPT
                       !.log = Append(@, WalkEvent("pt_entry", WalkRoot, <<>>,
                                                   r, descend)),
                       !.odd = WalkOdd(r),
                       !.ret = r.err,
                       !.pc = IF descend THEN "run" ELSE "done",
                       !.stack = IF descend
                                 THEN <<WalkFrame(<<>>, TRUE, WalkRootLevel,
                                                  walk.addr, walk.end)>>
                                 ELSE <<>>]
    /\ UNCHANGED <<corevars, walkrest>>

\* drm_pt_walk_shared after drm_pt_walk_range returned 0.
WalkSharedPost ==
    /\ walk.pc = "rootpost"
    /\ \E r \in {a \in WalkAnswers : a.action = "SUBTREE" /\ a.child = "same"} :
         walk' = [walk EXCEPT
                    !.log = Append(@, WalkEvent("pt_post_descend", WalkRoot,
                                                <<>>, r, FALSE)),
                    !.odd = WalkOdd(r),
                    !.ret = r.err,
                    !.pc = "done"]
    /\ UNCHANGED <<corevars, walkrest>>

NextWalk ==
    \/ WalkSkipCovered
    \/ WalkEntry
    \/ WalkReturn
    \/ WalkPostDescend
    \/ WalkSharedEntry
    \/ WalkSharedPost

SpecWalk == InitWalk /\ [][NextWalk]_usmvars

\* The first address of the table at a path, and the entries of the log
\* that are calls of pt_entry.
WalkBase(path) ==
    LET RECURSIVE sum(_)
        sum(k) == IF k > Len(path) THEN 0
                  ELSE path[k] * WalkSpan(WalkRootLevel - k + 1) + sum(k + 1)
    IN sum(1)
WalkEntryCalls ==
    {n \in 1 .. Len(walk.log) : walk.log[n].cb = "pt_entry"}
WalkUnder(path, sub) ==
    Len(sub) >= Len(path) /\ SubSeq(sub, 1, Len(path)) = path

\* C29: in normal mode drm_pt_walk_range calls pt_entry once, retries
\* apart, for every entry of every table it reaches whose span meets
\* [addr, end), in ascending order within a table, with [addr, next) the
\* part of the range inside the entry's span, and before every callback
\* made for the entry's child subtree.
\* The log only grows, one callback at a time: the order of two calls is
\* checked when the later one is the last of the log.
C29_WalkRangeVisits ==
    walk.mode = "normal" =>
    LET L == walk.log
        lo(e) == WalkBase(e.path) + e.offset * WalkSpan(e.level)
        hi(e) == lo(e) + WalkSpan(e.level)
        Reached == {<<>>} \cup {Append(L[n].path, L[n].offset) :
                                  n \in {m \in WalkEntryCalls : L[m].descend}}
    IN /\ \A n \in WalkEntryCalls :
            /\ L[n].level = WalkRootLevel - Len(L[n].path)
            /\ L[n].addr = Max(walk.addr, lo(L[n]))
            /\ L[n].next = Min(walk.end, hi(L[n]))
            /\ L[n].addr < L[n].next
            /\ (L[n].action = "AGAIN" /\ n < Len(L)) =>
                   /\ L[n + 1].cb = "pt_entry"
                   /\ L[n + 1].path = L[n].path
                   /\ L[n + 1].offset = L[n].offset
       /\ \A n \in WalkEntryCalls :
            (n < Len(L) /\ L[n].path = L[Len(L)].path
               /\ L[Len(L)].cb = "pt_entry" /\ L[n].action # "AGAIN")
               => L[n].offset < L[Len(L)].offset
       /\ \A n \in 1 .. Len(L) :
            (L[Len(L)].cb = "pt_entry"
               /\ WalkUnder(Append(L[Len(L)].path, L[Len(L)].offset),
                            L[n].path))
               => n > Len(L)
       /\ (walk.pc = "done" /\ walk.ret = 0) =>
            \A p \in Reached : \A i \in 0 .. (WalkEntries - 1) :
               LET e == [path |-> p, offset |-> i,
                         level |-> WalkRootLevel - Len(p)]
               IN (e.level >= 0 /\ lo(e) < walk.end /\ walk.addr < hi(e)) =>
                     \E n \in WalkEntryCalls :
                        /\ L[n].path = p
                        /\ L[n].offset = i
                        /\ L[n].action # "AGAIN"

\* A finished walk in normal mode over a range that starts and ends
\* inside a lowest-level table, with a retry and calls at level 0.
C29_Witness ==
    /\ walk.mode = "normal"
    /\ walk.pc = "done"
    /\ walk.ret = 0
    /\ walk.addr % WalkEntries # 0
    /\ walk.end % WalkEntries # 0
    /\ walk.end - walk.addr > WalkSpan(WalkRootLevel)
    /\ \E n \in WalkEntryCalls : walk.log[n].action = "AGAIN"
    /\ \E n \in WalkEntryCalls : walk.log[n].level = 0

\* C30: a non-zero return of pt_entry or pt_post_descend is the last
\* callback of the walk, in either mode, and is what the walk returns.
C30_ErrorEndsWalk ==
    LET L == walk.log
    IN /\ \A n \in 1 .. Len(L) : L[n].err # 0 => n = Len(L)
       /\ (walk.pc = "done" /\ L # <<>> /\ L[Len(L)].err # 0)
             => walk.ret = L[Len(L)].err
       /\ (walk.pc = "done" /\ walk.ret # 0)
             => L # <<>> /\ L[Len(L)].err = walk.ret

\* drm_pt_walk_shared returned the error of a pt_post_descend made two
\* levels below the root, after other callbacks.
C30_Witness ==
    /\ walk.mode = "shared"
    /\ walk.pc = "done"
    /\ walk.ret = 0 - ENOMEM
    /\ Len(walk.log) > 3
    /\ walk.log[Len(walk.log)].cb = "pt_post_descend"
    /\ walk.log[Len(walk.log)].level = WalkRootLevel - 1

\* The entries of the log below the root call of drm_pt_walk_shared, the
\* span of an entry, and the tables the walk went into.
WalkBelowRoot == {n \in WalkEntryCalls : walk.log[n].level <= WalkRootLevel}
WalkLo(e) == WalkBase(e.path) + e.offset * WalkSpan(e.level)
WalkHi(e) == WalkLo(e) + WalkSpan(e.level)
WalkInside(e) == walk.addr <= WalkLo(e) /\ WalkHi(e) <= walk.end
WalkTouched(e) == WalkLo(e) < walk.end /\ walk.addr < WalkHi(e)
WalkReached ==
    {IF walk.log[n].level > WalkRootLevel THEN <<>>
     ELSE Append(walk.log[n].path, walk.log[n].offset) :
        n \in {m \in WalkEntryCalls : walk.log[m].descend}}
WalkEntryOf(p, i) ==
    [path |-> p, offset |-> i, level |-> WalkRootLevel - Len(p)]

\* C31: below the root call drm_pt_walk_shared never calls pt_entry for
\* an entry whose span lies inside [addr, end), calls it for every entry
\* the range covers in part in a table it went into, and so visits at
\* most the first and the last touched entry of a table.
C31_SharedVisitsPartial ==
    walk.mode = "shared" =>
    LET L == walk.log
    IN /\ \A n \in WalkBelowRoot :
            /\ ~WalkInside(L[n])
            /\ WalkTouched(L[n])
            /\ \/ L[n].offset = drm_pt_offset(Max(walk.addr, WalkBase(L[n].path)),
                                               L[n].level)
               \/ WalkLo(L[n]) < walk.end /\ walk.end < WalkHi(L[n])
       /\ (walk.pc = "done" /\ walk.ret = 0) =>
            \A p \in WalkReached : \A i \in 0 .. (WalkEntries - 1) :
               LET e == WalkEntryOf(p, i)
               IN (e.level >= 0 /\ WalkTouched(e) /\ ~WalkInside(e)) =>
                     \E n \in WalkBelowRoot :
                        L[n].path = p /\ L[n].offset = i

\* A finished shared walk that passed over a middle entry of the root
\* table, visited its first and last entry, and went two levels down.
C31_Witness ==
    /\ walk.mode = "shared"
    /\ walk.pc = "done"
    /\ walk.ret = 0
    /\ walk.addr < WalkSpan(WalkRootLevel)
    /\ walk.end > 2 * WalkSpan(WalkRootLevel)
    /\ \E n \in WalkBelowRoot :
          walk.log[n].level = WalkRootLevel /\ walk.log[n].offset = 0
    /\ \E n \in WalkBelowRoot :
          walk.log[n].level = WalkRootLevel /\ walk.log[n].offset = 2
    /\ \E n \in WalkBelowRoot : walk.log[n].level = WalkRootLevel - 1

\* The callbacks drm_pt_walk_shared makes for the root itself.
WalkRootCalls ==
    {n \in 1 .. Len(walk.log) : walk.log[n].level = WalkRootLevel + 1}

\* C32: drm_pt_walk_shared calls pt_entry for the root once, before any
\* other callback and with *child naming the root; it calls
\* pt_post_descend for the root once, after all other callbacks, when
\* the walk below succeeded; when the root's pt_entry fails or leaves an
\* action other than ACTION_SUBTREE there is no other callback.
C32_SharedRootCallbacks ==
    walk.mode = "shared" =>
    LET L == walk.log
    IN /\ walk.pc # "rootentry" => L # <<>>
       /\ L # <<>> =>
            /\ L[1].cb = "pt_entry"
            /\ L[1].level = WalkRootLevel + 1
            /\ L[1].path = <<>> /\ L[1].offset = 0
            /\ L[1].child = L[1].path
            /\ L[1].addr = walk.addr /\ L[1].next = walk.end
            /\ (L[1].err # 0 \/ L[1].action # "SUBTREE") =>
                  Len(L) = 1 /\ walk.pc = "done" /\ walk.ret = L[1].err
       /\ \A n \in WalkRootCalls :
            \/ n = 1
            \/ /\ n = Len(L) /\ walk.pc = "done"
               /\ L[n].cb = "pt_post_descend"
               /\ \A m \in 1 .. (n - 1) : L[m].err = 0
       /\ (/\ walk.pc = "done" /\ walk.has_post
           /\ L[1].err = 0 /\ L[1].action = "SUBTREE"
           /\ \A m \in 1 .. Len(L) : m \notin WalkRootCalls => L[m].err = 0)
            => Len(L) > 1 /\ Len(L) \in WalkRootCalls

\* drm_pt_walk_shared returned after the root's pt_post_descend, with
\* callbacks for entries below in between.
C32_Witness ==
    /\ walk.mode = "shared"
    /\ walk.pc = "done"
    /\ Len(walk.log) > 3
    /\ walk.log[Len(walk.log)].cb = "pt_post_descend"
    /\ walk.log[Len(walk.log)].level = WalkRootLevel + 1
    /\ walk.log[Len(walk.log)].child = <<>>

\* The callbacks made from the loop of drm_pt_walk_range, the table an
\* entry's child is, and whether *child named a table after a call.
WalkLoopCalls ==
    {n \in 1 .. Len(walk.log) : walk.log[n].level <= WalkRootLevel}
WalkSub(e) == Append(e.path, e.offset)
WalkPresent(e) ==
    e.out \in {"new", "install"} \/ (e.out = "same" /\ e.child # WalkNull)
WalkLastEntry(S) == CHOOSE k \in S : \A j \in S : j <= k

\* C35: drm_pt_walk_range calls pt_post_descend for an entry exactly when
\* it went into the entry's child (level above 0, child present, action
\* ACTION_SUBTREE) and that call returned 0, after every callback of the
\* subtree; ACTION_CONTINUE leaves out the descent and pt_post_descend;
\* ACTION_AGAIN makes it call pt_entry again for the same entry, with
\* child read again from the parent, before it goes on.
\* The log only grows, one callback at a time: what precedes a callback
\* is checked when that callback is the last of the log.
C35_PostDescendAndRetry ==
    LET L == walk.log
        last == Len(L)
        EntriesOf(t) == {k \in WalkLoopCalls :
                           k < last /\ L[k].cb = "pt_entry" /\ WalkSub(L[k]) = t}
    IN /\ \A n \in WalkLoopCalls :
            /\ L[n].cb = "pt_entry" =>
                 (L[n].descend <=> /\ L[n].err = 0 /\ L[n].level > 0
                                   /\ WalkPresent(L[n])
                                   /\ L[n].action = "SUBTREE")
            /\ L[n].cb = "pt_post_descend" => walk.has_post
       /\ (last \in WalkLoopCalls /\ L[last].path # <<>>) =>
            /\ EntriesOf(L[last].path) # {}
            /\ LET k == WalkLastEntry(EntriesOf(L[last].path))
               IN /\ L[k].descend
                  /\ \A m \in (k + 1) .. (last - 1) :
                        ~(/\ L[m].cb = "pt_post_descend"
                          /\ WalkSub(L[m]) = L[last].path)
       /\ (last \in WalkLoopCalls /\ L[last].cb = "pt_post_descend") =>
            /\ EntriesOf(WalkSub(L[last])) # {}
            /\ LET k == WalkLastEntry(EntriesOf(WalkSub(L[last])))
               IN /\ L[k].descend
                  /\ L[k].path = L[last].path /\ L[k].addr = L[last].addr
                  /\ L[k].next = L[last].next
                  /\ \A m \in (k + 1) .. (last - 1) :
                        /\ WalkUnder(WalkSub(L[k]), L[m].path)
                        /\ L[m].err = 0
       /\ (walk.pc = "done" /\ walk.ret = 0 /\ walk.has_post) =>
            \A n \in WalkLoopCalls :
               L[n].descend =>
                  \E m \in WalkLoopCalls :
                     /\ m > n /\ L[m].cb = "pt_post_descend"
                     /\ L[m].path = L[n].path /\ L[m].offset = L[n].offset
       /\ (/\ last > 1 /\ (last - 1) \in WalkLoopCalls
           /\ L[last - 1].cb = "pt_entry" /\ L[last - 1].err = 0
           /\ L[last - 1].action = "AGAIN") =>
            /\ L[last].cb = "pt_entry"
            /\ L[last].path = L[last - 1].path
            /\ L[last].offset = L[last - 1].offset
            /\ L[last].addr = L[last - 1].addr
            /\ L[last].next = L[last - 1].next
            /\ L[last].child = IF L[last - 1].out = "install"
                               THEN WalkSub(L[last]) ELSE L[last - 1].child

\* A finished walk with a retry after a callback that left a new table
\* in *child only, where the second call saw NULL again, and with later
\* calls of pt_post_descend.
C35_Witness ==
    /\ walk.pc = "done"
    /\ walk.ret = 0
    /\ \E n \in WalkLoopCalls :
          /\ n < Len(walk.log)
          /\ walk.log[n].action = "AGAIN" /\ walk.log[n].out = "new"
          /\ walk.log[n].child = WalkNull
          /\ walk.log[n + 1].child = WalkNull
          /\ \E m \in WalkLoopCalls :
                m > n /\ walk.log[m].cb = "pt_post_descend"

(* ------------------- what an unbind frees, and when ------------------- *)
\* C33: no unbind frees or detaches the root of the tree, also when it
\* removes the last live entry of the tree: __xe_pt_prepare_unbind never
\* hands the root over for removal, and the root the VM holds afterwards
\* is the node the unbind left.
C33_RootKept ==
    [][\A i \in vmas \ vmas' :
         LET u == xe_pt_unbind(pt_root, vma[i].start, vma[i].end + 1, TRUE)
         IN /\ ~u.rem
            /\ pt_root' = u.node
            /\ pt_root'.kind = "pt"
            /\ pt_root'.level = PtRootLevel]_vmvars

\* Every VMA was unbound again: the root is there with no live entry.
C33_Witness ==
    /\ vmas = {}
    /\ Len(vma) = MaxPtVmas
    /\ \A i \in 1 .. Len(vma) : vma[i].destroyed
    /\ pt_root.kind = "pt"
    /\ pt_root.level = PtRootLevel
    /\ pt_root.num_live = 0

RECURSIVE PtPaths(_, _)
\* The nodes of the tree under a node, each named by the entries (from 1)
\* taken from the root to reach it; path names the node itself.
PtPaths(node, path) ==
    IF node.kind # "pt" THEN {}
    ELSE {path} \cup
         (IF node.level = 0 THEN {}
          ELSE UNION {PtPaths(node.slots[i], Append(path, i)) :
                        i \in 1 .. PtEntries})

\* The first address under the node at a path, and the addresses under it.
PtPathBase(path) ==
    LET RECURSIVE sum(_)
        sum(k) == IF k > Len(path) THEN 0
                  ELSE (path[k] - 1) * xe_pt_span(PtRootLevel - k + 1)
                       + sum(k + 1)
    IN sum(1)
PtPathSpan(path) ==
    PtPathBase(path) ..
       (PtPathBase(path) + xe_pt_span(PtRootLevel - Len(path) + 1) - 1)

AsyncOps == SeqToSet(pending) \cup (IF wop = NoOp THEN {} ELSE {wop})

\* The queued operation o rebinds a remainder VMA of a munmap-style
\* UNMAP: vm_bind_ioctl_async gives it the bind_op of the UNMAP, whose
\* range is not the range of the remainder.
munmap_rebind_op(tab, o) ==
    /\ o.kind \in {"MAP", "MAP_USERPTR"}
    /\ o.vma # NoVma
    /\ tab[o.vma].start # o.addr

\* The operation u unbinds the VMA flagged first of the sequence of o.
munmap_first_op(tab, u, o) ==
    /\ u.kind = "UNMAP" /\ u.addr = o.addr /\ u.range = o.range
    /\ tab[u.vma].first_munmap_rebind

\* A remainder is still to be rebound, and the unbind that opened its
\* sequence is no longer queued or in hand.
MunmapOpen(tab, ops) ==
    \E o \in ops :
        /\ munmap_rebind_op(tab, o)
        /\ \A u \in ops : ~munmap_first_op(tab, u, o)

\* The step is a pass of the worker from the label again that executed
\* the operation in its hand without an error.
AsyncExecOk ==
    /\ wpc \in {"lock", "exec"}
    /\ wpc' # "crashed"
    /\ hist'.done = wop.serial
    /\ hist'.failed = 0
    /\ pt_root' = pt_root
    /\ ipc' = ipc

IoctlTurnedAway ==
    /\ ipc = "idle" /\ ipc' = "idle"
    /\ nioctl' = nioctl + 1

\* C37: an xe_vm_bind_ioctl that carries out or enqueues nothing returns
\* a negative error code, never 0 and never a positive value.
C37_RejectionIsNegative ==
    [][IoctlTurnedAway => iret' < 0]_vmvars

(* ------------------ m->job_mutex when a migration returns ------------- *)
\* C38: m->job_mutex is released on every exit path of a clear or a
\* copy: with no call in progress the mutex is free, so a later call is
\* not blocked at mutex_lock.
C38_JobMutexReleased ==
    mig.pc = "idle" => ~mig.locked

(* ------------------ how much of an object the jobs cover -------------- *)
RECURSIVE MigBytes(_)
\* The chunk lengths of the jobs pushed, added up.
MigBytes(jobs) ==
    IF jobs = <<>> THEN 0 ELSE Head(jobs).len + MigBytes(Tail(jobs))

\* C39: a clear or a copy of an object of any size S > 0 that does not
\* fail has pushed at least one job, the chunk lengths of its jobs add
\* up to S, and the fence added to the object's reservation is the
\* finished fence of one of its jobs.
C39_ChunksCoverObject ==
    (mig.pc \in {"idle", "oops"} /\ mig.ret \notin {"none", "error"}) =>
        /\ Len(mig.jobs) >= 1
        /\ MigBytes(mig.jobs) = mig.bo_size
        /\ mig.resv \in 1 .. Len(mig.jobs)

(* --------------- how many updates a prepare phase emits --------------- *)
\* The deepest tree a VM can have: the level of the root.
XE_VM_MAX_LEVEL == PtRootLevel

RECURSIVE xe_pt_bind_entries(_, _, _)
\* The entries[] __xe_pt_prepare_bind fills for [start, end) on a node,
\* each given by the level of its table, in the order of (*num_entries)++:
\* the partial first child, the partial last child, then the node itself
\* if it fills entries of its own.
xe_pt_bind_entries(node, start, end) ==
    LET so == xe_pt_idx(start, node.level)
        lo == xe_pt_idx(end - 1, node.level)
        pb == /\ node.slots[so + 1].kind = "pt"
              /\ xe_pt_partial_entry(start,
                     Min(xe_pt_next_start(start, node.level), end),
                     node.level)
        pe == /\ node.slots[lo + 1].kind = "pt"
              /\ lo > so
              /\ xe_pt_partial_entry(
                     Max(start, xe_pt_prev_end(end, node.level)), end,
                     node.level)
        added == lo + 1 - so - (IF pb THEN 1 ELSE 0) - (IF pe THEN 1 ELSE 0)
    IN IF node.level = 0 THEN <<0>>
       ELSE (IF pb
             THEN xe_pt_bind_entries(node.slots[so + 1],
                      SlotCur(start, node.level, so),
                      SlotEnd(start, end, node.level, so))
             ELSE <<>>)
            \o (IF pe
                THEN xe_pt_bind_entries(node.slots[lo + 1],
                         SlotCur(start, node.level, lo),
                         SlotEnd(start, end, node.level, lo))
                ELSE <<>>)
            \o (IF added = 0 THEN <<>> ELSE <<node.level>>)

\* The end of __xe_pt_prepare_unbind with every node that loses entries
\* writing an update, also one its parent is to remove.
xe_pt_unbind_emits_always(isroot, num_live, removed) == removed # 0

\* The end of __xe_pt_prepare_unbind: a node that loses no entry returns
\* early, one below the root that loses all its live entries is left to
\* its parent, any other fills an entry.
xe_pt_unbind_emits(isroot, num_live, removed) ==
    removed # 0 /\ (isroot \/ num_live # removed)

RECURSIVE xe_pt_unbind_entries(_, _, _, _), xe_pt_unbind_entries_from(_, _, _, _, _)
\* The entries[] __xe_pt_prepare_unbind fills for [start, end) on a node,
\* each given by the level of its table: every child under the range is
\* descended into, unless the whole directory goes.
xe_pt_unbind_entries(node, start, end, isroot) ==
    LET so == xe_pt_idx(start, node.level)
        lo == xe_pt_idx(end - 1, node.level)
    IN IF node.kind # "pt" THEN <<>>
       ELSE IF node.level = 0
       THEN (IF xe_pt_unbind_emits(isroot, node.num_live, lo - so + 1)
             THEN <<0>> ELSE <<>>)
       ELSE IF /\ lo + 1 - so = PtEntries
               /\ \/ node.slots[so + 1].kind # "pt"
                  \/ ~xe_pt_partial_entry(start,
                         Min(xe_pt_next_start(start, node.level), end),
                         node.level)
               /\ \/ node.slots[lo + 1].kind # "pt"
                  \/ ~xe_pt_partial_entry(
                         Max(start, xe_pt_prev_end(end, node.level)), end,
                         node.level)
       THEN <<>>
       ELSE xe_pt_unbind_entries_from(node, start, end, so, lo)
            \o (IF xe_pt_unbind_emits(isroot, node.num_live,
                        Cardinality({i \in so .. lo :
                            xe_pt_unbind(node.slots[i + 1],
                                SlotCur(start, node.level, i),
                                SlotEnd(start, end, node.level, i),
                                FALSE).rem}))
                THEN <<node.level>> ELSE <<>>)

\* The descents of __xe_pt_prepare_unbind under the entries i .. lo.
xe_pt_unbind_entries_from(node, start, end, i, lo) ==
    IF i > lo THEN <<>>
    ELSE xe_pt_unbind_entries(node.slots[i + 1],
             SlotCur(start, node.level, i),
             SlotEnd(start, end, node.level, i), FALSE)
         \o xe_pt_unbind_entries_from(node, start, end, i + 1, lo)

\* The updates E fit entries[XE_VM_MAX_LEVEL * 2 + 1]: at most one for
\* the root and two for each level below it.
PtEntriesFit(E) ==
    /\ Len(E) <= XE_VM_MAX_LEVEL * 2 + 1
    /\ \A l \in 0 .. XE_VM_MAX_LEVEL :
          Cardinality({n \in 1 .. Len(E) : E[n] = l})
              <= (IF l = XE_VM_MAX_LEVEL THEN 1 ELSE 2)

\* C40: the prepare phase of every first bind, rebind and unbind emits
\* updates that fit the entries array of its caller, at most one for the
\* root and two for each lower level.
C40_EntriesFit ==
    [][/\ \A i \in vmas' \ vmas :
            PtEntriesFit(xe_pt_bind_entries(pt_root, vma'[i].start,
                                            vma'[i].end + 1))
       /\ \A i \in vmas \ vmas' :
            PtEntriesFit(xe_pt_unbind_entries(pt_root, vma[i].start,
                                              vma[i].end + 1, TRUE))
       /\ \A i \in vmas \cap vmas' :
            pt_root' = xe_pt_bind(vma[i], pt_root, vma[i].start,
                                  vma[i].end + 1, TRUE)
            => PtEntriesFit(xe_pt_bind_entries(pt_root, vma[i].start,
                                               vma[i].end + 1))]_vmvars

\* A VMA was bound next to another one: its unbind writes an update at
\* every level, and its bind on the tree as it is now two at each level
\* below the root.
C40_Witness ==
    /\ hist.bound \in vmas
    /\ \E j \in vmas : j # hist.bound
    /\ xe_pt_unbind_entries(pt_root, vma[hist.bound].start,
                            vma[hist.bound].end + 1, TRUE) = <<0, 1, 2>>
    /\ xe_pt_bind_entries(pt_root, vma[hist.bound].start,
                          vma[hist.bound].end + 1) = <<0, 1, 0, 1>>

====
